---- MODULE Spec2Model ----
(***************************************************************************)
(* State-machine model of the caching and request de-duplication layer of  *)
(* the Fukuoka trip guide: the weather hook (hooks/useWeather.ts), the     *)
(* generic localStorage cache (utils/cache.ts) with the Unsplash photo     *)
(* search built on it (utils/unsplash.ts), the directions, Foursquare and  *)
(* Places utilities, and the currency widget's exchange-rate load.         *)
(*                                                                         *)
(* Time is counted in hours.  localStorage is a function from storage key  *)
(* to the raw text held under it; a raw text is absent, unparseable, or    *)
(* the JSON text of a record.  The subsystems share nothing but            *)
(* localStorage, under different keys, so a behaviour exercises one        *)
(* subsystem, chosen in the initial state (variable sys).                  *)
(***************************************************************************)
EXTENDS Integers, Sequences, FiniteSets, TLC

\* ------------------------------------------------------------------ bounds
MaxTicks == 1
MaxCalls == 3
MaxTasks == 3

\* Loads the itinerary hook starts at most.
MaxLoads == 3

\* Polling intervals the wait is followed past its ceiling, and
\* 'google-maps-loaded' events dispatched at most.
MaxLate == 3
MaxEvents == 2

\* Operations on the itinerary days (addDay, import, reset) started at most.
MaxOps == 3

\* Changes of the props of the Foursquare panel at most.
MaxProps == 3

VARIABLES
  sys,            \* the subsystem this behaviour exercises
  now,            \* Date.now(), in hours
  ticks,          \* clock steps taken so far
  ls,             \* localStorage: storage key -> raw text
  inflightFetch,  \* useWeather.ts: the in-flight fetch (0: null)
  ops,            \* useWeather.ts: the fetch operations started, in order
  calls,          \* useWeather.ts: the calls of fetchWeatherData, in order
  ret,            \* cache.ts: the last get or set of the cache and its answer
  lastSet,        \* cache.ts: per key, the last set of the key
  apiKey,         \* whether the build defines the utility's API key or token
  task,           \* the utility call in progress, or the last one finished
  ntasks,         \* utility calls started so far
  emptyAt,        \* unsplash.ts: per place, when "no photo" was last recorded
  memoryCache,    \* places.ts: the in-memory level of the places cache
  lastSave,       \* places.ts: per key, the last saveToCache of the key
  rate,           \* CurrencyWidget: the exchange rate shown
  loading,        \* CurrencyWidget: the loading flag
  probe,          \* cache keys: two parameter tuples and the keys made of them
  hook,           \* useItinerary: the hook's state, its loads and the stores
  maps,           \* waitForGoogleMaps: the wait in progress, its timers and the page
  trip,           \* itinerary days: the hook's days, the two stores and the operation in progress
  panel           \* FoursquareRestaurants: its props, its state and its effect runs

weatherVars == <<inflightFetch, ops, calls>>
cacheVars == <<ret, lastSet>>
taskVars == <<apiKey, task, ntasks>>
photoVars == <<emptyAt>>
placesVars == <<memoryCache, lastSave>>
currencyVars == <<rate, loading>>
keyVars == <<probe>>
planVars == <<hook>>
mapsVars == <<maps>>
tripVars == <<trip>>
panelVars == <<panel>>
vars == <<sys, now, ticks, ls, weatherVars, cacheVars, taskVars, photoVars, placesVars,
          currencyVars, keyVars, planVars, mapsVars, tripVars, panelVars>>
notWeather == <<cacheVars, taskVars, photoVars, placesVars, currencyVars, keyVars, planVars, mapsVars, tripVars, panelVars>>
notCache == <<weatherVars, taskVars, photoVars, placesVars, currencyVars, keyVars, planVars, mapsVars, tripVars, panelVars>>
notPhoto == <<weatherVars, cacheVars, placesVars, currencyVars, keyVars, planVars, mapsVars, tripVars, panelVars>>
notPlaces == <<weatherVars, cacheVars, photoVars, currencyVars, keyVars, planVars, mapsVars, tripVars, panelVars>>
notTrip == <<sys, now, ticks, ls, weatherVars, cacheVars, taskVars, photoVars, placesVars,
             currencyVars, keyVars, planVars, mapsVars, panelVars>>
notPanel == <<sys, now, ticks, ls, weatherVars, cacheVars, taskVars, photoVars, placesVars,
              currencyVars, keyVars, planVars, mapsVars, tripVars>>
notCurrency == <<weatherVars, cacheVars, photoVars, placesVars, keyVars, planVars, mapsVars, tripVars, panelVars>>

\* ------------------------------------------------------- localStorage text
\* getItem's answer for a key that holds nothing.
NoItem == [kind |-> "none", data |-> "", timestamp |-> 0]
\* A stored text that JSON.parse rejects.
Garbage == [kind |-> "garbage", data |-> "", timestamp |-> 0]
\* JSON.stringify of a record with the payload d and the write time t.
Stringify(d, t) == [kind |-> "json", data |-> d, timestamp |-> t]

\* --------------------------------------------------------------- weather
WEATHER_CACHE_KEY == "weather_cache_fukuoka_v2"
\* 4 * 60 * 60 * 1000 ms
WEATHER_CACHE_DURATION == 4

\* What a call of fetchWeatherData settles with: a snapshot or null.
WeatherNull == [kind |-> "null", data |-> "", fetchedAt |-> 0]
WeatherData(d, t) == [kind |-> "data", data |-> d, fetchedAt |-> t]
WeatherPayloads == {"wA", "wB"}

\* try { ... } catch: what the cache check of fetchWeatherData ends with.
\* "return": a fresh snapshot is returned; "fall": control goes on to the
\* in-flight check; "throw": an exception leaves the function.
WeatherCacheBody(store, t, readFails) ==
  IF readFails THEN [status |-> "throw", val |-> WeatherNull]
  ELSE LET stored == store[WEATHER_CACHE_KEY] IN
    IF stored.kind = "none" THEN [status |-> "fall", val |-> WeatherNull]
    ELSE IF stored.kind = "garbage" THEN [status |-> "throw", val |-> WeatherNull]
    ELSE IF t - stored.timestamp < WEATHER_CACHE_DURATION
      THEN [status |-> "return", val |-> WeatherData(stored.data, stored.timestamp)]
      ELSE [status |-> "fall", val |-> WeatherNull]

WeatherCacheRead(store, t, readFails) ==
  LET r == WeatherCacheBody(store, t, readFails) IN
    IF r.status = "throw" THEN [status |-> "fall", val |-> WeatherNull] ELSE r

\* if (inflightFetch) return inflightFetch;
DedupNever(inflight) == FALSE

Deduplicate(inflight) == inflight # 0

\* finally { inflightFetch = null; }
FinallyKeep(inflight) == inflight

FinallyClear(inflight) == 0

\* An operation (a run of the fetch started at useWeather.ts:55) records its
\* stage, its result, whether it wrote the snapshot, how its fetch ended,
\* the store when it started (until it settles) and, once settled, whether
\* the store was then as it was when the operation started.
\* The operations that have not settled.
Outstanding(os) == {i \in 1..Len(os) : os[i].stage # "settled"}

Lowest(S) == IF S = {} THEN 0 ELSE CHOOSE i \in S : \A j \in S : i <= j

\* A component calls fetchWeatherData: the synchronous part, up to the
\* first await.
FetchWeatherData(readFails) ==
  /\ sys = "weather"
  /\ Len(calls) < MaxCalls
  /\ LET r == WeatherCacheRead(ls, now, readFails) IN
       IF r.status = "throw" THEN
         /\ calls' = Append(calls, [pc |-> "rejected", op |-> 0, result |-> WeatherNull,
                                     joined |-> 0, unread |-> TRUE])
         /\ UNCHANGED <<inflightFetch, ops>>
       ELSE IF r.status = "return" THEN
         /\ calls' = Append(calls, [pc |-> "done", op |-> 0, result |-> r.val,
                                     joined |-> 0, unread |-> FALSE])
         /\ UNCHANGED <<inflightFetch, ops>>
       ELSE IF Deduplicate(inflightFetch) THEN
         /\ calls' = Append(calls, [pc |-> "await", op |-> inflightFetch,
                                     result |-> WeatherNull,
                                     joined |-> Lowest(Outstanding(ops)),
                                     unread |-> (readFails \/ ls[WEATHER_CACHE_KEY].kind = "garbage")])
         /\ UNCHANGED <<inflightFetch, ops>>
       ELSE
         /\ ops' = Append(ops, [stage |-> "fetch", result |-> WeatherNull, stored |-> FALSE,
                                 fetch |-> "none", before |-> ls, kept |-> TRUE])
         /\ inflightFetch' = Len(ops) + 1
         /\ calls' = Append(calls, [pc |-> "await", op |-> Len(ops) + 1,
                                     result |-> WeatherNull,
                                     joined |-> Lowest(Outstanding(ops')),
                                     unread |-> (readFails \/ ls[WEATHER_CACHE_KEY].kind = "garbage")])
  /\ UNCHANGED <<sys, now, ticks, ls>>
  /\ UNCHANGED notWeather

\* The callers awaiting operation o resume with its result: the promise
\* reactions run in the microtask checkpoint that settles the operation.
Resume(cs, o, result) ==
  [c \in 1..Len(cs) |->
     IF cs[c].pc = "await" /\ cs[c].op = o
       THEN [cs[c] EXCEPT !.pc = "done", !.result = result]
       ELSE cs[c]]

\* await fetch(...) settles: a network error, a non-success status, or a
\* response whose body is still to be read.
WeatherFetchSettles(o, outcome) ==
  /\ sys = "weather"
  /\ o \in 1..Len(ops)
  /\ ops[o].stage = "fetch"
  /\ IF outcome = "ok"
       THEN /\ ops' = [ops EXCEPT ![o].stage = "json", ![o].fetch = "ok"]
            /\ UNCHANGED <<inflightFetch, calls>>
       ELSE /\ ops' = [ops EXCEPT ![o].stage = "settled", ![o].result = WeatherNull,
                                  ![o].fetch = "failed", ![o].before = <<>>,
                                  ![o].kept = (ls = ops[o].before)]
            /\ inflightFetch' = FinallyClear(inflightFetch)
            /\ calls' = Resume(calls, o, WeatherNull)
  /\ UNCHANGED <<sys, now, ticks, ls>>
  /\ UNCHANGED notWeather

\* await response.json() settles: the body is read and converted, or the
\* read or the conversion throws.
WeatherJsonSettles(o, payload, good, writeFails) ==
  /\ sys = "weather"
  /\ o \in 1..Len(ops)
  /\ ops[o].stage = "json"
  /\ IF good
       THEN /\ ls' = IF writeFails THEN ls
                     ELSE [ls EXCEPT ![WEATHER_CACHE_KEY] = Stringify(payload, now)]
            /\ ops' = [ops EXCEPT ![o].stage = "settled",
                                  ![o].result = WeatherData(payload, now),
                                  ![o].stored = ~writeFails,
                                  ![o].before = <<>>,
                                  ![o].kept = (ls' = ops[o].before)]
            /\ calls' = Resume(calls, o, WeatherData(payload, now))
       ELSE /\ ops' = [ops EXCEPT ![o].stage = "settled", ![o].result = WeatherNull,
                                  ![o].before = <<>>,
                                  ![o].kept = (ls = ops[o].before)]
            /\ calls' = Resume(calls, o, WeatherNull)
            /\ UNCHANGED ls
  /\ inflightFetch' = FinallyClear(inflightFetch)
  /\ UNCHANGED <<sys, now, ticks>>
  /\ UNCHANGED notWeather

WeatherNext ==
  \/ \E rf \in BOOLEAN : FetchWeatherData(rf)
  \/ \E o \in 1..MaxCalls, outcome \in {"ok", "notok", "reject"} : WeatherFetchSettles(o, outcome)
  \/ \E o \in 1..MaxCalls, p \in WeatherPayloads, good \in BOOLEAN, wf \in BOOLEAN :
       WeatherJsonSettles(o, p, good, wf)

\* ------------------------------------------------------- cache.ts
\* JavaScript's null: what get answers for a miss, and a value a caller
\* may store.
Null == "null"

\* unsplash.ts: const photoCache = createCache({ prefix, duration })
PHOTO_CACHE_PREFIX == "fuka_unsplash_"
\* 24 * 60 * 60 * 1000 ms
PHOTO_CACHE_DURATION == 24

\* The keys the cache is used with and the values stored under them.
CacheKeys == {"QQ=="}
CacheValues == {Null, "p1", "p2"}

\* Date.now() - entry.timestamp < duration
FreshInclusive(t, timestamp, duration) == t - timestamp <= duration

Fresh(t, timestamp, duration) == t - timestamp < duration

\* The try block of get: "return" with entry.data, "fall" to the final
\* return null (after removeItem), or "throw".
CacheGetBody(store, prefix, duration, key, t, storageFails) ==
  IF storageFails THEN [status |-> "throw", val |-> Null, store |-> store]
  ELSE LET stored == store[prefix \o key] IN
    IF stored.kind = "none" THEN [status |-> "return", val |-> Null, store |-> store]
    ELSE IF stored.kind = "garbage" THEN [status |-> "throw", val |-> Null, store |-> store]
    ELSE IF Fresh(t, stored.timestamp, duration)
      THEN [status |-> "return", val |-> stored.data, store |-> store]
      ELSE [status |-> "fall", val |-> Null,
            store |-> [store EXCEPT ![prefix \o key] = NoItem]]

\* createCache(...).get(key): the answer, the store it leaves, and whether
\* an exception leaves get.
CacheGet(store, prefix, duration, key, t, storageFails) ==
  LET r == CacheGetBody(store, prefix, duration, key, t, storageFails) IN
    [val |-> IF r.status = "return" THEN r.val ELSE Null,
     store |-> r.store, threw |-> FALSE]

CacheSetKeepsFirst(store, prefix, key, data, t, storageFails) ==
  IF storageFails \/ store[prefix \o key].kind # "none" THEN [store |-> store, threw |-> FALSE]
  ELSE [store |-> [store EXCEPT ![prefix \o key] = Stringify(data, t)], threw |-> FALSE]

CacheSetUncaught(store, prefix, key, data, t, storageFails) ==
  IF storageFails THEN [store |-> store, threw |-> TRUE]
  ELSE [store |-> [store EXCEPT ![prefix \o key] = Stringify(data, t)], threw |-> FALSE]

\* createCache(...).set(key, data)
CacheSet(store, prefix, key, data, t, storageFails) ==
  IF storageFails THEN [store |-> store, threw |-> FALSE]
  ELSE [store |-> [store EXCEPT ![prefix \o key] = Stringify(data, t)], threw |-> FALSE]

NoOp == [op |-> "none", key |-> "", val |-> Null, threw |-> FALSE, failed |-> FALSE, at |-> 0]
\* The last set of a key: its value and time, whether its write succeeded,
\* the raw record it left in place when the write failed, and the value of
\* the set before it (NoPrior: there was none).
NoPrior == "none"
NeverSet == [done |-> FALSE, v |-> Null, t |-> 0, ok |-> FALSE, prev |-> NoItem,
             prior |-> NoPrior]

\* A caller invokes photoCache.get(key).
Get(key, storageFails) ==
  /\ sys = "cache"
  /\ LET r == CacheGet(ls, PHOTO_CACHE_PREFIX, PHOTO_CACHE_DURATION, key, now, storageFails) IN
       /\ ls' = r.store
       /\ ret' = [op |-> "get", key |-> key, val |-> r.val, threw |-> r.threw,
                  failed |-> storageFails, at |-> now]
  /\ UNCHANGED <<sys, now, ticks, lastSet>>
  /\ UNCHANGED notCache

\* A caller invokes photoCache.set(key, data).
Set(key, data, storageFails) ==
  /\ sys = "cache"
  /\ LET r == CacheSet(ls, PHOTO_CACHE_PREFIX, key, data, now, storageFails) IN
       /\ ls' = r.store
       /\ ret' = [op |-> "set", key |-> key, val |-> data, threw |-> r.threw,
                  failed |-> storageFails, at |-> now]
  /\ lastSet' = [lastSet EXCEPT ![key] =
                   [done |-> TRUE, v |-> data, t |-> now, ok |-> ~storageFails,
                    prev |-> IF storageFails THEN ls[PHOTO_CACHE_PREFIX \o key]
                             ELSE NoItem,
                    prior |-> IF lastSet[key].done THEN lastSet[key].v ELSE NoPrior]]
  /\ UNCHANGED <<sys, now, ticks>>
  /\ UNCHANGED notCache

CacheNext ==
  \/ \E k \in CacheKeys, f \in BOOLEAN : Get(k, f)
  \/ \E k \in CacheKeys, v \in CacheValues, f \in BOOLEAN : Set(k, v, f)

\* ----------------------------------------------------- utility calls
\* A call of an async utility: the function, its argument, where it stands
\* ("fetch", "json": awaiting the network; "done": resolved with result;
\* "rejected": rejected to its caller; "stuck": can no longer settle), the
\* network requests it issued, localStorage when it started, when it
\* started, whether the storage was unavailable then, how its remote fetch
\* ended ("failed": network error or non-success status), and what its
\* cache read answered.  recAt is, for a photo search, when "no photo" was
\* last recorded for the place, and for a restaurant search, when the last
\* saveToCache of the key failed to write localStorage with no reload since
\* (-1: no such record).  mem is, for a restaurant search, the memoryCache
\* entry of its key when it started (all of memoryCache for a search whose
\* coordinates are refused).  body tells how the processing of a
\* successful response ended ("value", "empty": zero results, or "threw"),
\* saved whether the call wrote the cache ("ok", or "failed": the storage
\* write threw).
NoTask == [fn |-> "", arg |-> "", pc |-> "idle", result |-> Null, requests |-> 0,
           before |-> <<>>, at |-> 0, failed |-> FALSE, recAt |-> -1,
           fetch |-> "none", cached |-> "", mem |-> <<>>,
                   body |-> "", saved |-> "none"]

Settled(t) == t.pc \in {"idle", "done", "rejected", "stuck"}

\* ---------------------------------------------------------- unsplash.ts
\* JavaScript's undefined: getFromPhotoCache's answer for "not cached".
Undefined == "undefined"

Places == {"A", "B"}

\* btoa(encodeURIComponent(query))
PhotoKey(query) == CASE query = "A" -> "QQ==" [] query = "B" -> "Qg=="

GetFromPhotoCacheNoPeek(store, query, t, storageFails) ==
  LET result == CacheGet(store, PHOTO_CACHE_PREFIX, PHOTO_CACHE_DURATION,
                         PhotoKey(query), t, storageFails)
  IN [val |-> IF result.val = Null THEN Undefined ELSE result.val,
      store |-> result.store]

\* getFromPhotoCache(query): undefined, null or the cached photo, and the
\* store it leaves.
GetFromPhotoCache(store, query, t, storageFails) ==
  LET key == PhotoKey(query) IN
  IF storageFails \/ store[PHOTO_CACHE_PREFIX \o key].kind = "none"
    THEN [val |-> Undefined, store |-> store]
    ELSE LET result == CacheGet(store, PHOTO_CACHE_PREFIX, PHOTO_CACHE_DURATION,
                                key, t, storageFails)
         IN IF result.val = Null
              THEN IF result.store[PHOTO_CACHE_PREFIX \o key].kind = "none"
                     THEN [val |-> Undefined, store |-> result.store]
                     ELSE [val |-> Null, store |-> result.store]
              ELSE [val |-> result.val, store |-> result.store]

\* saveToPhotoCache(query, data)
SaveToPhotoCache(store, query, data, t, storageFails) ==
  CacheSet(store, PHOTO_CACHE_PREFIX, PhotoKey(query), data, t, storageFails).store

\* searchPlacePhoto(placeName), up to the first await.
SearchPlacePhoto(place, storageFails) ==
  /\ sys = "photo"
  /\ Settled(task)
  /\ ntasks < MaxTasks
  /\ ntasks' = ntasks + 1
  /\ LET start == [fn |-> "photo", arg |-> place, pc |-> "fetch", result |-> Null,
                   requests |-> 0, before |-> ls, at |-> now, failed |-> storageFails,
                   recAt |-> emptyAt[place], fetch |-> "none", cached |-> "", mem |-> <<>>,
                   body |-> "", saved |-> "none"]
         cached == GetFromPhotoCache(ls, place, now, storageFails)
     IN IF ~apiKey THEN
          /\ task' = [start EXCEPT !.pc = "done"]
          /\ UNCHANGED <<ls, emptyAt>>
        ELSE IF cached.val # Undefined THEN
          /\ task' = [start EXCEPT !.pc = "done", !.result = cached.val]
          /\ ls' = cached.store
          /\ UNCHANGED emptyAt
        ELSE
          /\ task' = [start EXCEPT !.requests = 1]
          /\ ls' = cached.store
          /\ emptyAt' = IF cached.store = ls THEN emptyAt
                         ELSE [emptyAt EXCEPT ![place] = -1]
  /\ UNCHANGED <<sys, now, ticks, apiKey>>
  /\ UNCHANGED notPhoto

\* await fetch(...) of searchPlacePhoto settles.
PhotoFetchSettles(outcome) ==
  /\ sys = "photo"
  /\ task.fn = "photo"
  /\ task.pc = "fetch"
  /\ task' = IF outcome = "ok"
               THEN [task EXCEPT !.pc = "json", !.fetch = "ok"]
               ELSE [task EXCEPT !.pc = "done", !.result = Null, !.fetch = "failed"]
  /\ UNCHANGED <<sys, now, ticks, ls, apiKey, ntasks, emptyAt>>
  /\ UNCHANGED notPhoto

\* await response.json() of searchPlacePhoto settles: no results, a photo,
\* or the read or the conversion throws.
PhotoJsonSettles(body, storageFails) ==
  /\ sys = "photo"
  /\ task.fn = "photo"
  /\ task.pc = "json"
  /\ IF body = "empty" THEN
       /\ ls' = SaveToPhotoCache(ls, task.arg, Null, now, storageFails)
       /\ emptyAt' = IF storageFails THEN emptyAt ELSE [emptyAt EXCEPT ![task.arg] = now]
       /\ task' = [task EXCEPT !.pc = "done", !.result = Null, !.body = "empty",
                               !.saved = IF storageFails THEN "failed" ELSE "ok"]
     ELSE IF body = "photo" THEN
       /\ ls' = SaveToPhotoCache(ls, task.arg, "p1", now, storageFails)
       /\ emptyAt' = IF storageFails THEN emptyAt ELSE [emptyAt EXCEPT ![task.arg] = -1]
       /\ task' = [task EXCEPT !.pc = "done", !.result = "p1", !.body = "value",
                               !.saved = IF storageFails THEN "failed" ELSE "ok"]
     ELSE
       /\ task' = [task EXCEPT !.pc = "done", !.result = Null]
       /\ UNCHANGED <<ls, emptyAt>>
  /\ UNCHANGED <<sys, now, ticks, apiKey, ntasks>>
  /\ UNCHANGED notPhoto

PhotoNext ==
  \/ \E q \in Places, f \in BOOLEAN : SearchPlacePhoto(q, f)
  \/ \E outcome \in {"ok", "notok", "reject"} : PhotoFetchSettles(outcome)
  \/ \E body \in {"empty", "photo", "throws"}, f \in BOOLEAN : PhotoJsonSettles(body, f)

\* -------------------------------------------------------- directions.ts
DIRECTIONS_CACHE_PREFIX == "fuka_directions_"
\* 24 * 60 * 60 * 1000 ms
DIRECTIONS_CACHE_DURATION == 24

\* getMapboxProfile(transportType)
GetMapboxProfile(transportType) ==
  CASE transportType = "WALK" -> "walking"
    [] transportType \in {"TAXI", "BUS", "SHIP", "FLIGHT", "TRAIN"} -> "driving"
    [] OTHER -> "walking"

\* Coordinates are integers, in 1/100000 of a degree.
\* Math.round(n * 10000) / 10000, in 1/10000 of a degree.
Round4(n) == (n + 5) \div 10

\* makeCacheKey(startLat, startLng, endLat, endLng, profile)
DirectionsMakeCacheKey(startLat, startLng, endLat, endLng, profile) ==
  DIRECTIONS_CACHE_PREFIX \o ToString(Round4(startLat)) \o "_" \o ToString(Round4(startLng))
    \o "_" \o ToString(Round4(endLat)) \o "_" \o ToString(Round4(endLng)) \o "_" \o profile

\* The routes asked for; "rFar" starts at latitude 90.00001.
Routes == {"r1", "rFar"}
RouteArgs(r) ==
  CASE r = "r1" -> [startLat |-> 3359021, startLng |-> 13040173,
                    endLat |-> 3358550, endLng |-> 13042650, transportType |-> "WALK"]
    [] r = "rFar" -> [startLat |-> 9000001, startLng |-> 13040173,
                      endLat |-> 3358550, endLng |-> 13042650, transportType |-> "WALK"]

RouteKey(r) ==
  LET a == RouteArgs(r) IN
    DirectionsMakeCacheKey(a.startLat, a.startLng, a.endLat, a.endLng,
                           GetMapboxProfile(a.transportType))

\* The try block of getFromCache.
DirectionsGetBody(store, key, t, storageFails) ==
  IF storageFails THEN [status |-> "throw", val |-> Null, store |-> store]
  ELSE LET stored == store[key] IN
    IF stored.kind = "none" THEN [status |-> "return", val |-> Null, store |-> store]
    ELSE IF stored.kind = "garbage" THEN [status |-> "throw", val |-> Null, store |-> store]
    ELSE IF t - stored.timestamp < DIRECTIONS_CACHE_DURATION
      THEN [status |-> "return", val |-> stored.data, store |-> store]
      ELSE [status |-> "fall", val |-> Null, store |-> [store EXCEPT ![key] = NoItem]]

DirectionsGetAlwaysMiss(store, key, t, storageFails) ==
  [val |-> Null, store |-> store, threw |-> FALSE]

\* getFromCache(key)
DirectionsGetFromCache(store, key, t, storageFails) ==
  LET r == DirectionsGetBody(store, key, t, storageFails) IN
    [val |-> IF r.status = "return" THEN r.val ELSE Null,
     store |-> r.store, threw |-> FALSE]

\* saveToCache(key, data)
DirectionsSaveToCache(store, key, data, t, storageFails) ==
  IF storageFails THEN store ELSE [store EXCEPT ![key] = Stringify(data, t)]

FetchRouteFailureCached(store, key, t) == [store EXCEPT ![key] = Stringify(Null, t)]

\* What the failure returns of fetchRoute do to the store: return null,
\* with no write.
FetchRouteFailure(store, key, t) == store

\* fetchRoute(...), up to the first await.
FetchRoute(r, storageFails) ==
  /\ sys = "route"
  /\ Settled(task)
  /\ ntasks < MaxTasks
  /\ ntasks' = ntasks + 1
  /\ LET start == [fn |-> "route", arg |-> r, pc |-> "fetch", result |-> Null,
                   requests |-> 0, before |-> ls, at |-> now, failed |-> storageFails,
                   recAt |-> -1, fetch |-> "none", cached |-> "", mem |-> <<>>,
                   body |-> "", saved |-> "none"]
         cached == DirectionsGetFromCache(ls, RouteKey(r), now, storageFails)
     IN IF ~apiKey THEN
          /\ task' = [start EXCEPT !.pc = "done"]
          /\ UNCHANGED ls
        ELSE IF cached.threw THEN
          /\ task' = [start EXCEPT !.pc = "rejected"]
          /\ ls' = cached.store
        ELSE IF cached.val # Null THEN
          /\ task' = [start EXCEPT !.pc = "done", !.result = cached.val]
          /\ ls' = cached.store
        ELSE
          /\ task' = [start EXCEPT !.requests = 1]
          /\ ls' = cached.store
  /\ UNCHANGED <<sys, now, ticks, apiKey, emptyAt>>
  /\ UNCHANGED notPhoto

\* await fetch(url) of fetchRoute settles.
RouteFetchSettles(outcome) ==
  /\ sys = "route"
  /\ task.fn = "route"
  /\ task.pc = "fetch"
  /\ IF outcome = "ok"
       THEN /\ task' = [task EXCEPT !.pc = "json", !.fetch = "ok"]
            /\ UNCHANGED ls
       ELSE /\ task' = [task EXCEPT !.pc = "done", !.result = Null, !.fetch = "failed"]
            /\ ls' = FetchRouteFailure(ls, RouteKey(task.arg), now)
  /\ UNCHANGED <<sys, now, ticks, apiKey, ntasks, emptyAt>>
  /\ UNCHANGED notPhoto

\* await response.json() of fetchRoute settles: a route, no route, or the
\* read or the conversion throws.
RouteJsonSettles(body, storageFails) ==
  /\ sys = "route"
  /\ task.fn = "route"
  /\ task.pc = "json"
  /\ IF body = "route" THEN
       /\ ls' = DirectionsSaveToCache(ls, RouteKey(task.arg), "route1", now, storageFails)
       /\ task' = [task EXCEPT !.pc = "done", !.result = "route1", !.body = "value",
                               !.saved = IF storageFails THEN "failed" ELSE "ok"]
     ELSE
       /\ task' = [task EXCEPT !.pc = "done", !.result = Null,
                               !.body = IF body = "noroutes" THEN "empty" ELSE "threw"]
       /\ UNCHANGED ls
  /\ UNCHANGED <<sys, now, ticks, apiKey, ntasks, emptyAt>>
  /\ UNCHANGED notPhoto

RouteNext ==
  \/ \E r \in Routes, f \in BOOLEAN : FetchRoute(r, f)
  \/ \E outcome \in {"ok", "notok", "reject"} : RouteFetchSettles(outcome)
  \/ \E body \in {"route", "noroutes", "throws"}, f \in BOOLEAN : RouteJsonSettles(body, f)

\* -------------------------------------------------------- foursquare.ts
FSQ_CACHE_PREFIX == "fuka_fsq_"
\* 24 * 60 * 60 * 1000 ms
FSQ_CACHE_DURATION == 24

\* { venues: [], apiUnavailable: true }
Unavailable == "unavailable"
\* An empty list of venues or restaurants.
EmptyList == "[]"

\* Math.round(n * 1000) / 1000, in 1/1000 of a degree.
Round3(n) == (n + 50) \div 100

\* makeCacheKey(lat, lng, radius)
FsqMakeCacheKey(lat, lng, radius) ==
  FSQ_CACHE_PREFIX \o ToString(Round3(lat)) \o "_" \o ToString(Round3(lng))
    \o "_" \o ToString(radius)

\* The searches asked for.
Spots == {"s1"}
\* A search at longitude -180.00001.
FarSpots == {"sFar"}
SpotArgs(q) ==
  CASE q = "s1" -> [lat |-> 3359021, lng |-> 13040173, radius |-> 800]
    [] q = "sFar" -> [lat |-> 3359021, lng |-> -18000001, radius |-> 800]

FsqKey(q) == LET a == SpotArgs(q) IN FsqMakeCacheKey(a.lat, a.lng, a.radius)

\* The try block of getFromCache.
FsqGetBody(store, key, t, storageFails) ==
  IF storageFails THEN [status |-> "throw", val |-> Null, store |-> store]
  ELSE LET stored == store[key] IN
    IF stored.kind = "none" THEN [status |-> "return", val |-> Null, store |-> store]
    ELSE IF stored.kind = "garbage" THEN [status |-> "throw", val |-> Null, store |-> store]
    ELSE IF t - stored.timestamp < FSQ_CACHE_DURATION
      THEN [status |-> "return", val |-> stored.data, store |-> store]
      ELSE [status |-> "fall", val |-> Null, store |-> [store EXCEPT ![key] = NoItem]]

\* getFromCache(key)
FsqGetFromCache(store, key, t, storageFails) ==
  LET r == FsqGetBody(store, key, t, storageFails) IN
    [val |-> IF r.status = "return" THEN r.val ELSE Null,
     store |-> r.store, threw |-> FALSE]

\* saveToCache(key, data)
FsqSaveToCache(store, key, data, t, storageFails) ==
  IF storageFails THEN store ELSE [store EXCEPT ![key] = Stringify(data, t)]

\* What the failure returns of searchFoursquareVenues do to the store:
\* return the unavailable result, with no write.
FsqFailure(store, key, t) == store

\* searchFoursquareVenues(lat, lng, radius), up to the first await.
SearchFoursquareVenues(q, storageFails) ==
  /\ sys = "fsq"
  /\ Settled(task)
  /\ ntasks < MaxTasks
  /\ ntasks' = ntasks + 1
  /\ LET start == [fn |-> "fsq", arg |-> q, pc |-> "fetch", result |-> Unavailable,
                   requests |-> 0, before |-> ls, at |-> now, failed |-> storageFails,
                   recAt |-> -1, fetch |-> "none", cached |-> "", mem |-> <<>>,
                   body |-> "", saved |-> "none"]
         cached == FsqGetFromCache(ls, FsqKey(q), now, storageFails)
     IN IF ~apiKey THEN
          /\ task' = [start EXCEPT !.pc = "done"]
          /\ UNCHANGED ls
        ELSE IF cached.threw THEN
          /\ task' = [start EXCEPT !.pc = "rejected"]
          /\ ls' = cached.store
        ELSE IF cached.val # Null THEN
          /\ task' = [start EXCEPT !.pc = "done", !.result = cached.val]
          /\ ls' = cached.store
        ELSE
          /\ task' = [start EXCEPT !.requests = 1]
          /\ ls' = cached.store
  /\ UNCHANGED <<sys, now, ticks, apiKey, emptyAt>>
  /\ UNCHANGED notPhoto

\* await fetch(...) of searchFoursquareVenues settles.
FsqFetchSettles(outcome) ==
  /\ sys = "fsq"
  /\ task.fn = "fsq"
  /\ task.pc = "fetch"
  /\ IF outcome = "ok"
       THEN /\ task' = [task EXCEPT !.pc = "json", !.fetch = "ok"]
            /\ UNCHANGED ls
       ELSE /\ task' = [task EXCEPT !.pc = "done", !.result = Unavailable,
                                    !.fetch = "failed"]
            /\ ls' = FsqFailure(ls, FsqKey(task.arg), now)
  /\ UNCHANGED <<sys, now, ticks, apiKey, ntasks, emptyAt>>
  /\ UNCHANGED notPhoto

\* await response.json() of searchFoursquareVenues settles: venues, an
\* empty list, or the read or the conversion throws.
FsqJsonSettles(body, storageFails) ==
  /\ sys = "fsq"
  /\ task.fn = "fsq"
  /\ task.pc = "json"
  /\ IF body = "throws" THEN
       /\ task' = [task EXCEPT !.pc = "done", !.result = Unavailable, !.body = "threw"]
       /\ UNCHANGED ls
     ELSE
       LET venues == IF body = "venues" THEN "venues1" ELSE EmptyList IN
         /\ ls' = FsqSaveToCache(ls, FsqKey(task.arg), venues, now, storageFails)
         /\ task' = [task EXCEPT !.pc = "done", !.result = venues,
                                 !.body = IF body = "venues" THEN "value" ELSE "empty",
                                 !.saved = IF storageFails THEN "failed" ELSE "ok"]
  /\ UNCHANGED <<sys, now, ticks, apiKey, ntasks, emptyAt>>
  /\ UNCHANGED notPhoto

FsqNext ==
  \/ \E q \in Spots \cup FarSpots, f \in BOOLEAN : SearchFoursquareVenues(q, f)
  \/ \E outcome \in {"ok", "notok", "reject"} : FsqFetchSettles(outcome)
  \/ \E body \in {"venues", "empty", "throws"}, f \in BOOLEAN : FsqJsonSettles(body, f)

\* ------------------------------------------------------------ places.ts
PLACES_CACHE_PREFIX == "fuka_places_cache_"
\* 24 * 60 * 60 * 1000 ms
PLACES_CACHE_DURATION == 24

\* The number n.toFixed(4) denotes, in 1/10000 of a degree: ties away
\* from zero.
PlacesRounded(n) == IF n >= 0 THEN (n + 5) \div 10 ELSE -((5 - n) \div 10)

\* n.toFixed(4), the text: a negative n keeps its sign, also when it rounds
\* to zero ("-0.0000").
ToFixed4(n) == IF n < 0 THEN "-" \o ToString((5 - n) \div 10) ELSE ToString((n + 5) \div 10)

\* const cacheKey = `${lat.toFixed(4)},${lng.toFixed(4)},${radius}`
PlacesCacheKey(lat, lng, radius) ==
  ToFixed4(lat) \o "," \o ToFixed4(lng) \o "," \o ToString(radius)

\* A JavaScript value passed as a coordinate: a finite number (in 1/100000
\* of a degree), NaN, an infinity, or a value that is not a number.
Num(v) == [type |-> "number", class |-> "finite", v |-> v]
NaN == [type |-> "number", class |-> "nan", v |-> 0]
Infinity == [type |-> "number", class |-> "infinite", v |-> 0]
Text == [type |-> "string", class |-> "nan", v |-> 0]

\* The searches asked for with coordinates the check refuses: NaN, an
\* infinite and a non-numeric latitude, a latitude just above 90 and a
\* longitude just below -180.
BadSpots == {"nan", "inf", "text", "north", "west"}

PlacesArgs(q) ==
  CASE q = "nan" -> [lat |-> NaN, lng |-> Num(13040173), radius |-> 800]
    [] q = "inf" -> [lat |-> Num(3359021), lng |-> Infinity, radius |-> 800]
    [] q = "text" -> [lat |-> Text, lng |-> Num(13040173), radius |-> 800]
    [] q = "north" -> [lat |-> Num(9000001), lng |-> Num(13040173), radius |-> 800]
    [] q = "west" -> [lat |-> Num(3359021), lng |-> Num(-18000001), radius |-> 800]
    [] OTHER -> [lat |-> Num(SpotArgs(q).lat), lng |-> Num(SpotArgs(q).lng),
                 radius |-> SpotArgs(q).radius]

PlacesKey(q) == LET a == PlacesArgs(q) IN PlacesCacheKey(a.lat.v, a.lng.v, a.radius)

\* The coordinate check at the head of searchNearbyRestaurants.
ValidCoordinates(lat, lng) ==
  /\ lat.type = "number" /\ lng.type = "number"
  /\ lat.class # "nan" /\ lng.class # "nan"
  /\ lat.class = "finite" /\ lng.class = "finite"
  /\ lat.v >= -9000000 /\ lat.v <= 9000000
  /\ lng.v >= -18000000 /\ lng.v <= 18000000

InvalidCoordinatesResultEmpty == EmptyList

\* return { restaurants: [], apiUnavailable: true } for refused coordinates
InvalidCoordinatesResult == Unavailable

\* An entry of memoryCache; kind "none" when the Map has no such key.
NoEntry == [kind |-> "none", data |-> "", timestamp |-> 0]
MemEntry(d, t) == [kind |-> "entry", data |-> d, timestamp |-> t]

PlacesGetFromCacheRestamp(memory, store, key, t, storageFails) ==
  LET entry == memory[key]
      memHit == entry.kind = "entry" /\ t - entry.timestamp < PLACES_CACHE_DURATION
      memory1 == [memory EXCEPT ![key] = NoEntry]
      stored == store[PLACES_CACHE_PREFIX \o key]
  IN IF memHit THEN [val |-> entry.data, memory |-> memory, store |-> store]
     ELSE IF storageFails \/ stored.kind \in {"none", "garbage"}
       THEN [val |-> Null, memory |-> memory1, store |-> store]
     ELSE IF t - stored.timestamp < PLACES_CACHE_DURATION
       THEN [val |-> stored.data,
             memory |-> [memory1 EXCEPT ![key] = MemEntry(stored.data, t)],
             store |-> store]
       ELSE [val |-> Null, memory |-> memory1,
             store |-> [store EXCEPT ![PLACES_CACHE_PREFIX \o key] = NoItem]]

\* getFromCache(key): the answer, and the two cache levels it leaves.
PlacesGetFromCache(memory, store, key, t, storageFails) ==
  LET entry == memory[key]
      memHit == entry.kind = "entry" /\ t - entry.timestamp < PLACES_CACHE_DURATION
      memory1 == [memory EXCEPT ![key] = NoEntry]
      stored == store[PLACES_CACHE_PREFIX \o key]
  IN IF memHit THEN [val |-> entry.data, memory |-> memory, store |-> store]
     ELSE IF storageFails \/ stored.kind \in {"none", "garbage"}
       THEN [val |-> Null, memory |-> memory1, store |-> store]
     ELSE IF t - stored.timestamp < PLACES_CACHE_DURATION
       THEN [val |-> stored.data,
             memory |-> [memory1 EXCEPT ![key] = MemEntry(stored.data, stored.timestamp)],
             store |-> store]
       ELSE [val |-> Null, memory |-> memory1,
             store |-> [store EXCEPT ![PLACES_CACHE_PREFIX \o key] = NoItem]]

\* saveToCache(key, data): memory first, then localStorage inside try.
PlacesSaveToCache(memory, store, key, data, t, storageFails) ==
  [memory |-> [memory EXCEPT ![key] = MemEntry(data, t)],
   store |-> IF storageFails THEN store
             ELSE [store EXCEPT ![PLACES_CACHE_PREFIX \o key] = Stringify(data, t)],
   threw |-> FALSE]

\* sv, st: the data and time of the last saveToCache that reached localStorage.
NeverSaved == [done |-> FALSE, v |-> Null, t |-> 0, ok |-> FALSE, reloaded |-> FALSE,
               prior |-> NoPrior, sv |-> Null, st |-> -1]

\* The results a successful search converts to.
Restaurants == {"rest1", "rest2"}

\* searchNearbyRestaurants(lat, lng, radius), up to the first await.
SearchNearbyRestaurants(q, storageFails) ==
  /\ sys = "places"
  /\ Settled(task)
  /\ ntasks < MaxTasks
  /\ ntasks' = ntasks + 1
  /\ LET a == PlacesArgs(q)
         refused == [fn |-> "places", arg |-> q, pc |-> "done",
                     result |-> InvalidCoordinatesResult,
                     requests |-> 0, before |-> ls, at |-> now, failed |-> storageFails,
                     recAt |-> -1, fetch |-> "none", cached |-> "", mem |-> memoryCache,
                     body |-> "", saved |-> "none"]
         start == [fn |-> "places", arg |-> q, pc |-> "wait", result |-> Unavailable,
                   requests |-> 0, before |-> ls, at |-> now, failed |-> storageFails,
                   recAt |-> LET w == lastSave[PlacesKey(q)] IN
                               IF w.done /\ ~w.ok /\ ~w.reloaded THEN w.t ELSE -1,
                   fetch |-> "none", cached |-> "", mem |-> memoryCache[PlacesKey(q)],
                   body |-> "", saved |-> "none"]
         got == PlacesGetFromCache(memoryCache, ls, PlacesKey(q), now, storageFails)
     IN IF ~ValidCoordinates(a.lat, a.lng) THEN
          /\ task' = refused
          /\ UNCHANGED <<ls, memoryCache>>
        ELSE
          /\ task' = IF got.val # Null
                       THEN [start EXCEPT !.pc = "done", !.result = got.val,
                                          !.cached = got.val]
                       ELSE [start EXCEPT !.cached = got.val]
          /\ ls' = got.store
          /\ memoryCache' = got.memory
  /\ UNCHANGED <<sys, now, ticks, apiKey, lastSave>>
  /\ UNCHANGED notPlaces

\* await waitForGoogleMaps() ends: the Places library is still missing, the
\* PlacesService or LatLng constructor throws (inside try), nearbySearch
\* throws inside the executor of the returned promise, or the search starts.
PlacesWaitEnds(outcome) ==
  /\ sys = "places"
  /\ task.fn = "places"
  /\ task.pc = "wait"
  /\ task' = CASE outcome = "started" -> [task EXCEPT !.pc = "search", !.requests = 1]
               [] outcome = "searchThrows" -> [task EXCEPT !.pc = "rejected"]
               [] OTHER -> [task EXCEPT !.pc = "done", !.result = Unavailable]
  /\ UNCHANGED <<sys, now, ticks, ls, apiKey, ntasks, placesVars>>
  /\ UNCHANGED notPlaces

\* The nearbySearch callback runs: status OK with results that convert, OK
\* with a result the conversion throws on (before resolve is reached), OK
\* with no results array, ZERO_RESULTS, or another status.
PlacesCallback(status, r, storageFails) ==
  /\ sys = "places"
  /\ task.fn = "places"
  /\ task.pc = "search"
  /\ IF status = "OK" THEN
       LET saved == PlacesSaveToCache(memoryCache, ls, PlacesKey(task.arg), r, now,
                                      storageFails) IN
         /\ memoryCache' = saved.memory
         /\ ls' = saved.store
         /\ lastSave' = [lastSave EXCEPT ![PlacesKey(task.arg)] =
                           [done |-> TRUE, v |-> r, t |-> now, ok |-> ~storageFails,
                            reloaded |-> FALSE,
                            prior |-> LET w == lastSave[PlacesKey(task.arg)] IN
                                        IF w.done THEN w.v ELSE NoPrior,
                            sv |-> IF storageFails THEN lastSave[PlacesKey(task.arg)].sv
                                   ELSE r,
                            st |-> IF storageFails THEN lastSave[PlacesKey(task.arg)].st
                                   ELSE now]]
         /\ task' = [task EXCEPT !.pc = IF saved.threw THEN "stuck" ELSE "done",
                                 !.result = r, !.fetch = "ok", !.body = "value",
                                 !.saved = IF storageFails THEN "failed" ELSE "ok"]
     ELSE
       /\ task' = CASE status = "OK_THROWS" ->
                         [task EXCEPT !.pc = "stuck", !.fetch = "ok", !.body = "threw"]
                    [] status = "ZERO_RESULTS" ->
                         [task EXCEPT !.pc = "done", !.result = EmptyList, !.fetch = "ok",
                                      !.body = "empty"]
                    [] OTHER ->
                         [task EXCEPT !.pc = "done", !.result = Unavailable,
                                      !.fetch = "failed"]
       /\ UNCHANGED <<ls, placesVars>>
  /\ UNCHANGED <<sys, now, ticks, apiKey, ntasks>>
  /\ UNCHANGED notPlaces

\* The page is reloaded: the module state (memoryCache) starts empty.
PlacesReload ==
  /\ sys = "places"
  /\ Settled(task)
  /\ task.pc # "idle"
  /\ memoryCache # [k \in DOMAIN memoryCache |-> NoEntry]
  /\ memoryCache' = [k \in DOMAIN memoryCache |-> NoEntry]
  /\ lastSave' = [k \in DOMAIN lastSave |-> [lastSave[k] EXCEPT !.reloaded = TRUE]]
  /\ UNCHANGED <<sys, now, ticks, ls, taskVars>>
  /\ UNCHANGED notPlaces

PlacesNext ==
  \/ \E q \in Spots \cup BadSpots, f \in BOOLEAN : SearchNearbyRestaurants(q, f)
  \/ \E outcome \in {"started", "searchThrows", "ctorThrows", "unavailable"} :
       PlacesWaitEnds(outcome)
  \/ \E status \in {"OK", "OK_THROWS", "OK_NULL", "ZERO_RESULTS", "ERROR"},
        r \in Restaurants, f \in BOOLEAN : PlacesCallback(status, r, f)
  \/ PlacesReload

\* ------------------------------------------------------- CurrencyWidget
CurrencyKeyShared == "weather_cache_fukuoka_v2"

CURRENCY_CACHE_KEY == "exchange_rate_twd_jpy"
\* 60 * 60 * 1000 ms
CURRENCY_CACHE_DURATION == 1
FallbackRate == "4.7"
Rates == {"r1"}

ExchangeRate(r, t) == [rate |-> r, timestamp |-> t]

\* The cache check at the head of fetchRate, which no try block encloses:
\* getItem or JSON.parse may throw, and then fetchRate's promise rejects.
CurrencyCacheCheck(store, t, storageFails) ==
  LET cached == store[CURRENCY_CACHE_KEY] IN
    IF storageFails \/ cached.kind = "garbage" THEN [status |-> "throw", val |-> Null]
    ELSE IF cached.kind = "json" /\ t - cached.timestamp < CURRENCY_CACHE_DURATION
      THEN [status |-> "return", val |-> ExchangeRate(cached.data, cached.timestamp)]
    ELSE [status |-> "fall", val |-> Null]

\* The widget mounts and its effect calls fetchRate(), up to the first await.
FetchRate(storageFails) ==
  /\ sys = "currency"
  /\ Settled(task)
  /\ ntasks < MaxTasks
  /\ ntasks' = ntasks + 1
  /\ LET c == CurrencyCacheCheck(ls, now, storageFails)
         start == [fn |-> "currency", arg |-> "", pc |-> "fetch", result |-> Null,
                   requests |-> 1, before |-> ls, at |-> now, failed |-> storageFails,
                   recAt |-> -1, fetch |-> "none", cached |-> "", mem |-> <<>>,
                   body |-> "", saved |-> "none"]
     IN CASE c.status = "throw" ->
               /\ task' = [start EXCEPT !.pc = "rejected", !.requests = 0]
               /\ rate' = Null
               /\ loading' = TRUE
          [] c.status = "return" ->
               /\ task' = [start EXCEPT !.pc = "done", !.requests = 0, !.cached = c.val.rate]
               /\ rate' = c.val
               /\ loading' = FALSE
          [] OTHER ->
               /\ task' = start
               /\ rate' = Null
               /\ loading' = TRUE
  /\ UNCHANGED <<sys, now, ticks, ls, apiKey>>
  /\ UNCHANGED notCurrency

\* await fetch(...) settles: a response that is ok, one that is not (throw
\* 'API failed'), or a rejection; the last two run catch and finally.
CurrencyFetchSettles(outcome) ==
  /\ sys = "currency"
  /\ task.fn = "currency"
  /\ task.pc = "fetch"
  /\ IF outcome = "ok" THEN
       /\ task' = [task EXCEPT !.pc = "json", !.fetch = "ok"]
       /\ UNCHANGED currencyVars
     ELSE
       /\ task' = [task EXCEPT !.pc = "done", !.fetch = "failed"]
       /\ rate' = ExchangeRate(FallbackRate, now)
       /\ loading' = FALSE
  /\ UNCHANGED <<sys, now, ticks, ls, apiKey, ntasks>>
  /\ UNCHANGED notCurrency

\* await response.json() settles: the body carries rates.JPY, or reading it
\* throws; setItem may throw before setRate(newRate) is reached.
CurrencyJsonSettles(r, good, storageFails) ==
  /\ sys = "currency"
  /\ task.fn = "currency"
  /\ task.pc = "json"
  /\ task' = [task EXCEPT !.pc = "done"]
  /\ IF good /\ ~storageFails THEN
       /\ ls' = [ls EXCEPT ![CURRENCY_CACHE_KEY] = Stringify(r, now)]
       /\ rate' = ExchangeRate(r, now)
     ELSE
       /\ ls' = ls
       /\ rate' = ExchangeRate(FallbackRate, now)
  /\ loading' = FALSE
  /\ UNCHANGED <<sys, now, ticks, apiKey, ntasks>>
  /\ UNCHANGED notCurrency

\* The widget holds a rate (rate is not null).
RateSet(r) == ToString(r) # ToString(Null)

\* refreshRate(), from the button of the widget's main view, up to the
\* first await: setLoading(true), then removeItem, which no try block
\* encloses. The task keeps the rate shown before the refresh in mem.
RefreshRate(storageFails) ==
  /\ sys = "currency"
  /\ Settled(task)
  /\ ~(loading /\ ~RateSet(rate))
  /\ ntasks < MaxTasks
  /\ ntasks' = ntasks + 1
  /\ task' = [fn |-> "refresh", arg |-> "",
              pc |-> IF storageFails THEN "rejected" ELSE "fetch", result |-> Null,
              requests |-> IF storageFails THEN 0 ELSE 1, before |-> ls, at |-> now,
              failed |-> storageFails, recAt |-> -1, fetch |-> "none", cached |-> "",
              mem |-> rate, body |-> "", saved |-> "none"]
  /\ loading' = TRUE
  /\ ls' = IF storageFails THEN ls ELSE [ls EXCEPT ![CURRENCY_CACHE_KEY] = NoItem]
  /\ UNCHANGED <<sys, now, ticks, apiKey, rate>>
  /\ UNCHANGED notCurrency

\* await fetch(...) of refreshRate settles: a response that is ok, one that
\* is not (nothing is done), or a rejection (catch); finally ends loading.
RefreshFetchSettles(outcome) ==
  /\ sys = "currency"
  /\ task.fn = "refresh"
  /\ task.pc = "fetch"
  /\ IF outcome = "ok" THEN
       /\ task' = [task EXCEPT !.pc = "json", !.fetch = "ok"]
       /\ UNCHANGED loading
     ELSE
       /\ task' = [task EXCEPT !.pc = "done", !.fetch = "failed"]
       /\ loading' = FALSE
  /\ UNCHANGED <<sys, now, ticks, ls, apiKey, ntasks, rate>>
  /\ UNCHANGED notCurrency

\* await response.json() of refreshRate settles: the body carries
\* rates.JPY, or reading it throws; setItem may throw before setRate.
RefreshJsonSettles(r, good, storageFails) ==
  /\ sys = "currency"
  /\ task.fn = "refresh"
  /\ task.pc = "json"
  /\ task' = [task EXCEPT !.pc = "done",
                          !.body = IF good THEN "value" ELSE "threw",
                          !.saved = IF ~good THEN "none"
                                    ELSE IF storageFails THEN "failed" ELSE "ok"]
  /\ IF good /\ ~storageFails THEN
       /\ ls' = [ls EXCEPT ![CURRENCY_CACHE_KEY] = Stringify(r, now)]
       /\ rate' = ExchangeRate(r, now)
     ELSE
       /\ UNCHANGED <<ls, rate>>
  /\ loading' = FALSE
  /\ UNCHANGED <<sys, now, ticks, apiKey, ntasks>>
  /\ UNCHANGED notCurrency

CurrencyNext ==
  \/ \E f \in BOOLEAN : FetchRate(f)
  \/ \E outcome \in {"ok", "notOk", "reject"} : CurrencyFetchSettles(outcome)
  \/ \E r \in Rates, good \in BOOLEAN, f \in BOOLEAN : CurrencyJsonSettles(r, good, f)
  \/ \E f \in BOOLEAN : RefreshRate(f)
  \/ \E outcome \in {"ok", "notOk", "reject"} : RefreshFetchSettles(outcome)
  \/ \E r \in Rates, good \in BOOLEAN, f \in BOOLEAN : RefreshJsonSettles(r, good, f)

\* ------------------------------------------------------------ cache keys
\* The coordinates (in 1/100000 of a degree) and radii the keys are made of.
KeyCoordinates == {-1, 1, 3359019, 3359021, 3359025}
KeyRadii == {500, 800}
KeyTuples == [lat : KeyCoordinates, lng : {13040173}, radius : KeyRadii]

NoKeys == [places |-> "", directions |-> "", fsq |-> ""]

\* The keys the three geographic caches make of a parameter tuple: places
\* and foursquare of (lat, lng, radius), directions of a walk from (lat, lng).
KeysOf(p) ==
  [places |-> PlacesCacheKey(p.lat, p.lng, p.radius),
   directions |-> DirectionsMakeCacheKey(p.lat, p.lng, 3358550, 13042650,
                                         GetMapboxProfile("WALK")),
   fsq |-> FsqMakeCacheKey(p.lat, p.lng, p.radius)]

\* The caches make the keys of the two tuples.
MakeCacheKeys ==
  /\ sys = "keys"
  /\ probe.ka = NoKeys
  /\ probe' = [probe EXCEPT !.ka = KeysOf(probe.a), !.kb = KeysOf(probe.b)]
  /\ UNCHANGED <<sys, now, ticks, ls, weatherVars, cacheVars, taskVars, photoVars,
                 placesVars, currencyVars, planVars, mapsVars, tripVars, panelVars>>

KeysNext == MakeCacheKeys

\* ----------------------------------------------------------- useItinerary
Plans == {"plan1", "plan2"}

\* ITINERARY_DATA and ITINERARY_DATA_2, and the days read from a plan's store.
DefaultData(plan) == [plan |-> plan, from |-> "default"]

StoredData(plan) == [plan |-> plan, from |-> "db"]

\* The hook before it is mounted anywhere.
NoHook ==
  [mounted |-> FALSE, activePlan |-> "plan1", itinerary |-> DefaultData("plan1"),
   loading |-> TRUE, loads |-> <<>>, stores |-> <<>>]

\* The effect's loadData starts for the plan of the render it belongs to.
StartLoad(h, plan) ==
  [h EXCEPT !.loading = TRUE,
            !.loads = Append(@, [plan |-> plan, pc |-> "open", outcome |-> ""])]

\* loadData continues with the data, or with the fallback data of its
\* render's plan: setItinerary, then setLoading(false).
FinishLoad(h, i, data) ==
  [h EXCEPT !.itinerary = data, !.loading = FALSE, !.loads[i].pc = "done",
            !.loads[i].outcome = "resolved"]

\* The component mounts: the effect runs for the first time.
Mount ==
  /\ sys = "itinerary"
  /\ ~hook.mounted
  /\ hook' = StartLoad([hook EXCEPT !.mounted = TRUE], hook.activePlan)
  /\ UNCHANGED <<sys, now, ticks, ls, weatherVars, cacheVars, taskVars, photoVars,
                 placesVars, currencyVars, keyVars, mapsVars, tripVars, panelVars>>

\* switchPlan(plan): the active plan changes and the effect runs again.
SwitchPlan(plan) ==
  /\ sys = "itinerary"
  /\ hook.mounted
  /\ Len(hook.loads) < MaxLoads
  /\ plan # hook.activePlan
  /\ hook' = StartLoad([hook EXCEPT !.activePlan = plan], plan)
  /\ UNCHANGED <<sys, now, ticks, ls, weatherVars, cacheVars, taskVars, photoVars,
                 placesVars, currencyVars, keyVars, mapsVars, tripVars, panelVars>>

\* openDB of load i settles: on failure getAllItineraries answers the
\* plan's default data.
OpenDBSettles(i, ok) ==
  /\ sys = "itinerary"
  /\ i \in 1..Len(hook.loads)
  /\ hook.loads[i].pc = "open"
  /\ hook' = IF ok THEN [hook EXCEPT !.loads[i].pc = "getAll"]
                   ELSE FinishLoad(hook, i, DefaultData(hook.loads[i].plan))
  /\ UNCHANGED <<sys, now, ticks, ls, weatherVars, cacheVars, taskVars, photoVars,
                 placesVars, currencyVars, keyVars, mapsVars, tripVars, panelVars>>

\* store.getAll() of load i settles: an empty store is seeded first, a
\* failed request rejects and loadData falls back.
GetAllSettles(i, ok) ==
  /\ sys = "itinerary"
  /\ i \in 1..Len(hook.loads)
  /\ hook.loads[i].pc = "getAll"
  /\ hook' = LET plan == hook.loads[i].plan
             IN IF ~ok THEN [FinishLoad(hook, i, DefaultData(plan))
                               EXCEPT !.loads[i].outcome = "rejected"]
                ELSE IF hook.stores[plan] = "empty"
                     THEN [hook EXCEPT !.loads[i].pc = "seed"]
                     ELSE FinishLoad(hook, i, StoredData(plan))
  /\ UNCHANGED <<sys, now, ticks, ls, weatherVars, cacheVars, taskVars, photoVars,
                 placesVars, currencyVars, keyVars, mapsVars, tripVars, panelVars>>

\* seedDatabase of load i settles: on completion the store holds the
\* default days and the load resolves with them; on error the callback
\* throws and the load's promise is never settled.
SeedSettles(i, ok) ==
  /\ sys = "itinerary"
  /\ i \in 1..Len(hook.loads)
  /\ hook.loads[i].pc = "seed"
  /\ hook' = LET plan == hook.loads[i].plan
             IN IF ok THEN FinishLoad([hook EXCEPT !.stores[plan] = "items"], i,
                                      DefaultData(plan))
                ELSE [hook EXCEPT !.loads[i].pc = "stuck"]
  /\ UNCHANGED <<sys, now, ticks, ls, weatherVars, cacheVars, taskVars, photoVars,
                 placesVars, currencyVars, keyVars, mapsVars, tripVars, panelVars>>

ItineraryNext ==
  \/ Mount
  \/ \E plan \in Plans : SwitchPlan(plan)
  \/ \E i \in 1..MaxLoads, ok \in BOOLEAN : OpenDBSettles(i, ok)
  \/ \E i \in 1..MaxLoads, ok \in BOOLEAN : GetAllSettles(i, ok)
  \/ \E i \in 1..MaxLoads, ok \in BOOLEAN : SeedSettles(i, ok)

\* ------------------------------------------------------ waitForGoogleMaps
\* Time here is counted in polling intervals of 100 ms (places.ts:364) from
\* the call; the ceiling of 10000 ms (places.ts:377) is 100 of them.
POLL_INTERVAL == 1
WAIT_CEILING == 100

\* No search is waiting. library: window.google.maps.places exists;
\* listening: checkLoaded is registered for 'google-maps-loaded'; due/next:
\* checkLoaded timers that fire now / one interval from now; timeout: the
\* ceiling timer is pending; late: resolve was first called after the ceiling.
NoMaps ==
  [pc |-> "idle", t |-> 0, library |-> FALSE, listening |-> FALSE, due |-> 0,
   next |-> 0, timeout |-> FALSE, expired |-> FALSE, resolved |-> FALSE,
   late |-> FALSE, events |-> 0, result |-> ""]

\* searchNearbyRestaurants after the await: without the Places library it
\* returns the unavailable result, otherwise it goes on to search.
AfterWait(library) == IF library THEN "search" ELSE Unavailable

\* resolve(): the first call settles the promise and the search continues.
MapsResolve(m) ==
  IF m.resolved THEN m
  ELSE [m EXCEPT !.resolved = TRUE, !.late = m.t > WAIT_CEILING, !.pc = "done",
                 !.result = AfterWait(m.library)]

CheckLoadedNoExpiry(m) ==
  IF m.library THEN MapsResolve(m) ELSE [m EXCEPT !.next = @ + 1]

\* checkLoaded()
CheckLoaded(m) ==
  IF m.expired THEN m
  ELSE IF m.library THEN MapsResolve(m)
  ELSE [m EXCEPT !.next = @ + 1]

\* searchNearbyRestaurants reaches await waitForGoogleMaps(): the executor
\* runs, with window.googleMapsLoaded set or not.
WaitForGoogleMaps(flag) ==
  /\ sys = "maps"
  /\ maps.pc = "idle"
  /\ maps' = LET m == [maps EXCEPT !.pc = "waiting"] IN
             IF m.library THEN MapsResolve(m)
             ELSE IF flag THEN [CheckLoaded(m) EXCEPT !.timeout = TRUE]
                  ELSE [m EXCEPT !.listening = TRUE, !.timeout = TRUE]
  /\ UNCHANGED <<sys, now, ticks, ls, weatherVars, cacheVars, taskVars, photoVars,
                 placesVars, currencyVars, keyVars, planVars, tripVars, panelVars>>

\* The Places library finishes loading.
LibraryLoads ==
  /\ sys = "maps"
  /\ ~maps.library
  /\ maps' = [maps EXCEPT !.library = TRUE]
  /\ UNCHANGED <<sys, now, ticks, ls, weatherVars, cacheVars, taskVars, photoVars,
                 placesVars, currencyVars, keyVars, planVars, tripVars, panelVars>>

\* The page dispatches 'google-maps-loaded': a registered checkLoaded runs.
MapsLoadedEvent ==
  /\ sys = "maps"
  /\ maps.events < MaxEvents
  /\ maps' = LET m == [maps EXCEPT !.events = @ + 1] IN
             IF m.listening THEN CheckLoaded(m) ELSE m
  /\ UNCHANGED <<sys, now, ticks, ls, weatherVars, cacheVars, taskVars, photoVars,
                 placesVars, currencyVars, keyVars, planVars, tripVars, panelVars>>

\* A setTimeout(checkLoaded, 100) timer fires.
PollFires ==
  /\ sys = "maps"
  /\ maps.due > 0
  /\ maps' = CheckLoaded([maps EXCEPT !.due = @ - 1])
  /\ UNCHANGED <<sys, now, ticks, ls, weatherVars, cacheVars, taskVars, photoVars,
                 placesVars, currencyVars, keyVars, planVars, tripVars, panelVars>>

\* The 10000 ms timer fires.
TimeoutFires ==
  /\ sys = "maps"
  /\ maps.timeout
  /\ maps.t = WAIT_CEILING
  /\ maps' = MapsResolve([maps EXCEPT !.timeout = FALSE, !.expired = TRUE])
  /\ UNCHANGED <<sys, now, ticks, ls, weatherVars, cacheVars, taskVars, photoVars,
                 placesVars, currencyVars, keyVars, planVars, tripVars, panelVars>>

\* 100 ms pass; the timers that were due have fired.
MapsTimePasses ==
  /\ sys = "maps"
  /\ maps.pc # "idle"
  /\ maps.due = 0
  /\ ~(maps.timeout /\ maps.t = WAIT_CEILING)
  /\ maps.t < WAIT_CEILING + MaxLate
  /\ maps' = [maps EXCEPT !.t = @ + POLL_INTERVAL, !.due = maps.next, !.next = 0]
  /\ UNCHANGED <<sys, now, ticks, ls, weatherVars, cacheVars, taskVars, photoVars,
                 placesVars, currencyVars, keyVars, planVars, tripVars, panelVars>>

MapsNext ==
  \/ \E flag \in BOOLEAN : WaitForGoogleMaps(flag)
  \/ LibraryLoads
  \/ MapsLoadedEvent
  \/ PollFires
  \/ TimeoutFires
  \/ MapsTimePasses

\* ------------------------------------------- itinerary days and their stores
\* A date key. fmt "md": the text "m/d (w)" with a one-character weekday w,
\* the form addDay's pattern /(\d+)\/(\d+)\s*\((.)\)/ matches; fmt "new":
\* "m/d (New)"; fmt "text": any other text w. The weekday characters are
\* named Sun .. Sat here.
DateMD(m, d, w) == [fmt |-> "md", m |-> m, d |-> d, w |-> w]

DateNew(m, d) == [fmt |-> "new", m |-> m, d |-> d, w |-> "New"]

DateText(w) == [fmt |-> "text", m |-> 0, d |-> 0, w |-> w]

\* A day: its date key, the n of its title "Day n", and what made it.
Day(date, num, tag) == [date |-> date, num |-> num, tag |-> tag]

NoDay == Day(DateText(""), 0, "")

\* const days = ['日', '一', '二', '三', '四', '五', '六'], by getDay() + 1
WeekdayNames == <<"Sun", "Mon", "Tue", "Wed", "Thu", "Fri", "Sat">>

\* The days of the months of the current year (2026, not a leap year), and
\* getDay() of its 1 January (a Thursday).
DaysInMonth == <<31, 28, 31, 30, 31, 30, 31, 31, 30, 31, 30, 31>>
NewYearWeekday == 4

RECURSIVE DaysBefore(_)
DaysBefore(m) == IF m = 1 THEN 0 ELSE DaysBefore(m - 1) + DaysInMonth[m - 1]

\* new Date(year, month - 1, day), with setDate(getDate() + 1): the month,
\* the day and getDay() of the following day.
DayAfter(m, d) ==
  LET wd == (NewYearWeekday + DaysBefore(m) + d) % 7
  IN IF d < DaysInMonth[m] THEN [m |-> m, d |-> d + 1, wd |-> wd]
     ELSE IF m < 12 THEN [m |-> m + 1, d |-> 1, wd |-> wd]
     ELSE [m |-> 1, d |-> 1, wd |-> wd]

\* addDay's new day after the days prev, on the calendar day today.
NewDay(prev, today) ==
  IF Len(prev) = 0 THEN Day(DateText("New Date"), 1, "added")
  ELSE LET lastDay == prev[Len(prev)] IN
       IF lastDay.date.fmt = "md"
         THEN LET n == DayAfter(lastDay.date.m, lastDay.date.d)
              IN Day(DateMD(n.m, n.d, WeekdayNames[n.wd + 1]), lastDay.num + 1, "added")
         ELSE Day(DateNew(today.m, today.d), lastDay.num + 1, "added")

\* store.put(day) on a store with keyPath 'date'.
StorePut(store, day) == {x \in store : x.date # day.date} \cup {day}

RECURSIVE StorePutAll(_, _)
StorePutAll(store, days) ==
  IF Len(days) = 0 THEN store
  ELSE StorePutAll(StorePut(store, Head(days)), Tail(days))

StoreClearNothing(store) == store

\* store.clear()
StoreClear(store) == {}

\* The default days of a plan (getDefaultData).
DefaultDays(plan) ==
  <<Day(DateMD(2, 27, "Fri"), 1, plan), Day(DateMD(2, 28, "Sat"), 2, plan)>>

\* The days of a plan after an edit of its first day and an added day.
EditedDays(plan) ==
  <<Day(DateMD(2, 27, "Fri"), 1, "edited"), Day(DateMD(2, 28, "Sat"), 2, plan),
    Day(DateMD(3, 1, "Sun"), 3, "added")>>

DaysOf(days) == {days[i] : i \in 1..Len(days)}

\* Files the user may import: days out of date order, a day whose date is
\* in another form, no day at all, and a day on a date of the default days.
Imports ==
  {<<Day(DateMD(3, 2, "Mon"), 1, "imported"), Day(DateMD(3, 1, "Sun"), 2, "imported")>>,
   <<Day(DateText("2026-03-01"), 1, "imported")>>,
   <<>>,
   <<Day(DateMD(2, 27, "Fri"), 1, "imported")>>}

NoTripOp == [fn |-> "none", pc |-> "", plan |-> "", day |-> NoDay, queue |-> <<>>,
         data |-> <<>>, before |-> <<>>]

\* The reset or import that settled last, until the next operation starts:
\* its result (reset: resolved, fallback or rejected; import: shown or
\* rejected), its plan, the imported days and the stores before a reset.
NoneDone == [fn |-> "none", result |-> "", plan |-> "", data |-> <<>>, before |-> <<>>]

\* The last save that settled: stored, openFailed or putFailed, and whether
\* 'db-error' was dispatched.
NoSave == [outcome |-> "", dispatched |-> FALSE]

NoTrip ==
  [plan |-> "plan1", itinerary |-> <<>>, loading |-> FALSE, stores |-> <<>>,
   op |-> NoTripOp, done |-> NoneDone, save |-> NoSave, events |-> 0, nops |-> 0,
   today |-> [m |-> 11, d |-> 2]]

\* saveDayItinerary(day, plan) is called by the operation fn.
StartSave(t, fn, day, queue, data) ==
  [t EXCEPT !.op = [fn |-> fn, pc |-> "open", plan |-> t.plan, day |-> day,
                    queue |-> queue, data |-> data, before |-> <<>>],
            !.done = NoneDone, !.save = NoSave]

\* The save of the operation has resolved: addDay's save is over; import
\* saves the next day, or ends with setItinerary(data) and setLoading(false).
SaveResolved(t) ==
  IF t.op.fn = "save" THEN [t EXCEPT !.op = NoTripOp]
  ELSE IF Len(t.op.queue) > 0
    THEN [t EXCEPT !.op.pc = "open", !.op.day = Head(t.op.queue),
                   !.op.queue = Tail(t.op.queue)]
    ELSE [t EXCEPT !.itinerary = t.op.data, !.loading = FALSE, !.op = NoTripOp,
                   !.done = [fn |-> "import", result |-> "shown", plan |-> t.op.plan,
                             data |-> t.op.data, before |-> <<>>]]

\* The save of the operation has rejected: addDay's .catch logs it; import's
\* catch logs it and the finally sets loading to false.
SaveRejected(t) ==
  IF t.op.fn = "save" THEN [t EXCEPT !.op = NoTripOp]
  ELSE [t EXCEPT !.loading = FALSE, !.op = NoTripOp,
                 !.done = [fn |-> "import", result |-> "rejected", plan |-> t.op.plan,
                           data |-> t.op.data, before |-> <<>>]]

\* addDay()
AddDay ==
  /\ sys = "days"
  /\ trip.op.fn = "none"
  /\ trip.nops < MaxOps
  /\ trip' = LET newDay == NewDay(trip.itinerary, trip.today)
                 t == [trip EXCEPT !.itinerary = Append(@, newDay), !.nops = @ + 1]
             IN StartSave(t, "save", newDay, <<>>, <<>>)
  /\ UNCHANGED notTrip

\* importItinerary(data)
ImportItinerary(data) ==
  /\ sys = "days"
  /\ trip.op.fn = "none"
  /\ trip.nops < MaxOps
  /\ trip' = LET t == [trip EXCEPT !.loading = TRUE, !.nops = @ + 1] IN
             IF Len(data) = 0
               THEN [t EXCEPT !.itinerary = data, !.loading = FALSE,
                              !.save = NoSave,
                              !.done = [fn |-> "import", result |-> "shown",
                                        plan |-> t.plan, data |-> data, before |-> <<>>]]
               ELSE StartSave(t, "import", Head(data), Tail(data), data)
  /\ UNCHANGED notTrip

\* await openDB() of saveDayItinerary settles: on failure the catch
\* dispatches 'db-error' and the save resolves.
SaveOpenSettles(ok) ==
  /\ sys = "days"
  /\ trip.op.fn \in {"save", "import"}
  /\ trip.op.pc = "open"
  /\ trip' = IF ok THEN [trip EXCEPT !.op.pc = "put"]
             ELSE SaveResolved([trip EXCEPT !.events = @ + 1,
                                            !.save = [outcome |-> "openFailed",
                                                      dispatched |-> TRUE]])
  /\ UNCHANGED notTrip

\* store.put(day) of saveDayItinerary settles: onsuccess resolves, onerror
\* rejects the promise the function has already returned.
SavePutSettles(ok) ==
  /\ sys = "days"
  /\ trip.op.fn \in {"save", "import"}
  /\ trip.op.pc = "put"
  /\ trip' = IF ok
               THEN SaveResolved([trip EXCEPT
                      !.stores[trip.op.plan] = StorePut(@, trip.op.day),
                      !.save = [outcome |-> "stored", dispatched |-> FALSE]])
               ELSE SaveRejected([trip EXCEPT
                      !.save = [outcome |-> "putFailed", dispatched |-> FALSE]])
  /\ UNCHANGED notTrip

\* resetToDefault(), confirmed: setLoading(true), resetItineraries(activePlan)
ResetToDefault ==
  /\ sys = "days"
  /\ trip.op.fn = "none"
  /\ trip.nops < MaxOps
  /\ trip' = [trip EXCEPT !.loading = TRUE, !.nops = @ + 1, !.done = NoneDone,
                          !.save = NoSave,
                          !.op = [NoTripOp EXCEPT !.fn = "reset", !.pc = "open",
                                              !.plan = trip.plan,
                                              !.before = trip.stores]]
  /\ UNCHANGED notTrip

\* The reset has settled with the result r: resolved after seeding, resolved
\* by the catch (fallback), or rejected. Resolved, the hook shows the
\* default days; in every case loading becomes false.
ResetSettled(t, r) ==
  [t EXCEPT !.itinerary = IF r \in {"resolved", "fallback"} THEN DefaultDays(t.op.plan)
                          ELSE @,
            !.loading = FALSE, !.op = NoTripOp,
            !.done = [fn |-> "reset", result |-> r, plan |-> t.op.plan,
                      data |-> <<>>, before |-> t.op.before]]

\* await openDB() of resetItineraries settles: on failure the catch returns
\* the default data.
ResetOpenSettles(ok) ==
  /\ sys = "days"
  /\ trip.op.fn = "reset"
  /\ trip.op.pc = "open"
  /\ trip' = IF ok THEN [trip EXCEPT !.op.pc = "clear"]
             ELSE ResetSettled(trip, "fallback")
  /\ UNCHANGED notTrip

\* store.clear() settles: onsuccess starts seedDatabase, onerror rejects.
ResetClearSettles(ok) ==
  /\ sys = "days"
  /\ trip.op.fn = "reset"
  /\ trip.op.pc = "clear"
  /\ trip' = IF ok THEN [trip EXCEPT !.stores[trip.op.plan] = StoreClear(@),
                                     !.op.pc = "seed"]
             ELSE ResetSettled(trip, "rejected")
  /\ UNCHANGED notTrip

\* seedDatabase settles: on completion the default days are stored and the
\* reset resolves; on error nothing handles it and the reset stays pending,
\* loading still true.
ResetSeedSettles(ok) ==
  /\ sys = "days"
  /\ trip.op.fn = "reset"
  /\ trip.op.pc = "seed"
  /\ trip' = IF ok
               THEN ResetSettled([trip EXCEPT !.stores[trip.op.plan] =
                                    StorePutAll(@, DefaultDays(trip.op.plan))],
                                 "resolved")
               ELSE [trip EXCEPT !.op.pc = "pending"]
  /\ UNCHANGED notTrip

DaysNext ==
  \/ AddDay
  \/ \E data \in Imports : ImportItinerary(data)
  \/ \E ok \in BOOLEAN : SaveOpenSettles(ok)
  \/ \E ok \in BOOLEAN : SavePutSettles(ok)
  \/ ResetToDefault
  \/ \E ok \in BOOLEAN : ResetOpenSettles(ok)
  \/ \E ok \in BOOLEAN : ResetClearSettles(ok)
  \/ \E ok \in BOOLEAN : ResetSeedSettles(ok)

\* --------------------------------------------------- FoursquareRestaurants
\* The coordinates the panel is given.
PanelCoords == {"c1", "c2"}

\* The venues state: the number of venues and the coordinates they were
\* searched for.
NoVenues == [n |-> 0, of |-> ""]

NoPanel ==
  [mounted |-> FALSE, expanded |-> FALSE, coords |-> "c1", venues |-> NoVenues,
   loading |-> FALSE, error |-> FALSE, runs |-> <<>>, changes |-> 0]

\* if (venues.length > 0) return
SkipWhenLoaded(p) == p.venues.n > 0

\* A render with changed deps: the cleanup of the previous effect run sets
\* its cancelled flag, then the effect runs with the props and state of p
\* and, unless it returns early, starts fetchVenues.
RunEffect(p) ==
  LET cleaned == [p EXCEPT !.runs = [i \in DOMAIN p.runs |->
                                       [p.runs[i] EXCEPT !.cancelled = TRUE]]]
  IN IF ~p.expanded \/ SkipWhenLoaded(p) THEN cleaned
     ELSE [cleaned EXCEPT !.loading = TRUE, !.error = FALSE,
                          !.runs = Append(@, [coords |-> p.coords, pc |-> "search",
                                              cancelled |-> FALSE])]

\* The panel mounts, expanded or not.
PanelMount(expanded) ==
  /\ sys = "panel"
  /\ ~panel.mounted
  /\ panel' = RunEffect([panel EXCEPT !.mounted = TRUE, !.expanded = expanded])
  /\ UNCHANGED notPanel

\* The parent expands or collapses the panel.
PanelToggle ==
  /\ sys = "panel"
  /\ panel.mounted
  /\ panel.changes < MaxProps
  /\ panel' = RunEffect([panel EXCEPT !.expanded = ~@, !.changes = @ + 1])
  /\ UNCHANGED notPanel

\* The parent gives the panel other coordinates.
PanelMoves(c) ==
  /\ sys = "panel"
  /\ panel.mounted
  /\ panel.changes < MaxProps
  /\ c # panel.coords
  /\ panel' = RunEffect([panel EXCEPT !.coords = c, !.changes = @ + 1])
  /\ UNCHANGED notPanel

\* await searchFoursquareVenues(lat, lng, 800) of effect run i settles:
\* venues, an empty list, the unavailable result or a rejection. A
\* cancelled run sets nothing.
VenuesSettle(i, outcome) ==
  /\ sys = "panel"
  /\ i \in 1..Len(panel.runs)
  /\ panel.runs[i].pc = "search"
  /\ panel' = LET run == panel.runs[i]
                  p == [panel EXCEPT !.runs[i].pc = "done"]
              IN IF run.cancelled THEN p
                 ELSE CASE outcome = "venues" ->
                             [p EXCEPT !.venues = [n |-> 1, of |-> run.coords],
                                       !.loading = FALSE]
                        [] outcome = "empty" ->
                             [p EXCEPT !.venues = NoVenues, !.loading = FALSE]
                        [] OTHER -> [p EXCEPT !.error = TRUE, !.loading = FALSE]
  /\ UNCHANGED notPanel

PanelNext ==
  \/ \E e \in BOOLEAN : PanelMount(e)
  \/ PanelToggle
  \/ \E c \in PanelCoords : PanelMoves(c)
  \/ \E i \in 1..(MaxProps + 1), outcome \in {"venues", "empty", "unavailable", "reject"} :
       VenuesSettle(i, outcome)

\* ----------------------------------------------------------------- clock
\* The clock advances between handler steps by one of these numbers of hours.
\* The handlers of the maps, days and panel parts never read Date.now(), so
\* the clock stands still there.
TickSteps ==
  CASE sys = "weather" -> {3, 4}
    [] sys = "currency" -> {1}
    [] sys \in {"maps", "days", "panel"} -> {}
    [] OTHER -> {23, 24}

Tick(d) ==
  /\ ticks < MaxTicks
  /\ now' = now + d
  /\ ticks' = ticks + 1
  /\ UNCHANGED <<sys, ls, weatherVars, cacheVars, taskVars, photoVars, placesVars,
                 currencyVars, keyVars, planVars, mapsVars, tripVars, panelVars>>

\* ------------------------------------------------------------------ spec
\* What localStorage may hold when the page loads: nothing, a damaged text,
\* or a record written in an earlier session.
InitialRaw == {NoItem, Garbage, Stringify("old", 0)}

\* The cache instances that share localStorage, the text each puts at the
\* head of its storage keys (a prefix, or the one key it uses), and the
\* storage keys each uses here.
Instances == {"directions", "fsq", "places", "photos", "weather", "currency"}

Namespace(i) ==
  CASE i = "directions" -> DIRECTIONS_CACHE_PREFIX
    [] i = "fsq" -> FSQ_CACHE_PREFIX
    [] i = "places" -> PLACES_CACHE_PREFIX
    [] i = "photos" -> PHOTO_CACHE_PREFIX
    [] i = "weather" -> WEATHER_CACHE_KEY
    [] i = "currency" -> CURRENCY_CACHE_KEY

InstanceKeys(i) ==
  CASE i = "directions" -> {RouteKey(r) : r \in Routes}
    [] i = "fsq" -> {FsqKey(q) : q \in Spots \cup FarSpots}
    [] i = "places" -> {PLACES_CACHE_PREFIX \o PlacesKey(q) : q \in Spots}
    [] i = "photos" -> {PHOTO_CACHE_PREFIX \o PhotoKey(q) : q \in Places}
    [] i = "weather" -> {WEATHER_CACHE_KEY}
    [] i = "currency" -> {CURRENCY_CACHE_KEY}

AllKeys == UNION {InstanceKeys(i) : i \in Instances}

\* The instance a subsystem's operations belong to.
InstanceOf(y) ==
  CASE y = "route" -> "directions"
    [] y \in {"cache", "photo"} -> "photos"
    [] y \in {"fsq", "places", "weather", "currency"} -> y

\* A record some other instance has stored.
Foreign == Stringify("foreign", 0)

\* localStorage at load: anything under the keys the subsystem works with,
\* and the records of the other instances under theirs.
InitStore(own) ==
  \E c \in [own -> InitialRaw] :
    ls = [k \in AllKeys \cup own |-> IF k \in own THEN c[k] ELSE Foreign]

InitClock ==
  /\ now = 0
  /\ ticks = 0

WeatherIdle ==
  /\ inflightFetch = 0
  /\ ops = <<>>
  /\ calls = <<>>

CacheIdle ==
  /\ ret = NoOp
  /\ lastSet = [k \in CacheKeys |-> NeverSet]

TaskIdle ==
  /\ task = NoTask
  /\ ntasks = 0
  /\ emptyAt = [q \in Places |-> -1]
  /\ memoryCache = [k \in {PlacesKey(q) : q \in Spots} |-> NoEntry]
  /\ lastSave = [k \in {PlacesKey(q) : q \in Spots} |-> NeverSaved]
  /\ rate = Null
  /\ loading = TRUE
  /\ probe = [a |-> <<>>, b |-> <<>>, ka |-> NoKeys, kb |-> NoKeys]
  /\ hook = NoHook
  /\ maps = NoMaps
  /\ trip = NoTrip
  /\ panel = NoPanel

InitWeather ==
  /\ sys = "weather"
  /\ InitClock
  /\ InitStore({WEATHER_CACHE_KEY})
  /\ WeatherIdle
  /\ CacheIdle
  /\ apiKey = FALSE
  /\ TaskIdle

InitCache ==
  /\ sys = "cache"
  /\ InitClock
  /\ InitStore({PHOTO_CACHE_PREFIX \o k : k \in CacheKeys})
  /\ WeatherIdle
  /\ CacheIdle
  /\ apiKey = FALSE
  /\ TaskIdle

InitPhoto ==
  /\ sys = "photo"
  /\ InitClock
  /\ InitStore({PHOTO_CACHE_PREFIX \o PhotoKey(q) : q \in Places})
  /\ WeatherIdle
  /\ CacheIdle
  /\ apiKey \in BOOLEAN
  /\ TaskIdle

InitRoute ==
  /\ sys = "route"
  /\ InitClock
  /\ InitStore({RouteKey(r) : r \in Routes})
  /\ WeatherIdle
  /\ CacheIdle
  /\ apiKey \in BOOLEAN
  /\ TaskIdle

NextRoute ==
  \/ \E d \in TickSteps : Tick(d)
  \/ RouteNext

SpecRoute == InitRoute /\ [][NextRoute]_vars

InitFsq ==
  /\ sys = "fsq"
  /\ InitClock
  /\ InitStore({FsqKey(q) : q \in Spots \cup FarSpots})
  /\ WeatherIdle
  /\ CacheIdle
  /\ apiKey \in BOOLEAN
  /\ TaskIdle

InitPlaces ==
  /\ sys = "places"
  /\ InitClock
  /\ InitStore({PLACES_CACHE_PREFIX \o PlacesKey(q) : q \in Spots})
  /\ WeatherIdle
  /\ CacheIdle
  /\ apiKey = TRUE
  /\ TaskIdle

NextPlaces ==
  \/ \E d \in TickSteps : Tick(d)
  \/ PlacesNext

SpecPlaces == InitPlaces /\ [][NextPlaces]_vars

InitCurrency ==
  /\ sys = "currency"
  /\ InitClock
  /\ InitStore({CURRENCY_CACHE_KEY})
  /\ WeatherIdle
  /\ CacheIdle
  /\ apiKey = TRUE
  /\ TaskIdle

NextCurrency ==
  \/ \E d \in TickSteps : Tick(d)
  \/ CurrencyNext

SpecCurrency == InitCurrency /\ [][NextCurrency]_vars

InitKeys ==
  /\ sys = "keys"
  /\ InitClock
  /\ ls = <<>>
  /\ WeatherIdle
  /\ CacheIdle
  /\ apiKey = TRUE
  /\ task = NoTask
  /\ ntasks = 0
  /\ emptyAt = [q \in Places |-> -1]
  /\ memoryCache = [k \in {PlacesKey(q) : q \in Spots} |-> NoEntry]
  /\ lastSave = [k \in {PlacesKey(q) : q \in Spots} |-> NeverSaved]
  /\ rate = Null
  /\ loading = TRUE
  /\ probe \in [a : KeyTuples, b : KeyTuples, ka : {NoKeys}, kb : {NoKeys}]
  /\ hook = NoHook
  /\ maps = NoMaps
  /\ trip = NoTrip
  /\ panel = NoPanel

InitItinerary ==
  /\ sys = "itinerary"
  /\ InitClock
  /\ InitStore({})
  /\ WeatherIdle
  /\ CacheIdle
  /\ apiKey = TRUE
  /\ task = NoTask
  /\ ntasks = 0
  /\ emptyAt = [q \in Places |-> -1]
  /\ memoryCache = [k \in {PlacesKey(q) : q \in Spots} |-> NoEntry]
  /\ lastSave = [k \in {PlacesKey(q) : q \in Spots} |-> NeverSaved]
  /\ rate = Null
  /\ loading = TRUE
  /\ probe = [a |-> <<>>, b |-> <<>>, ka |-> NoKeys, kb |-> NoKeys]
  /\ \E st \in [Plans -> {"empty", "items"}] : hook = [NoHook EXCEPT !.stores = st]
  /\ maps = NoMaps
  /\ trip = NoTrip
  /\ panel = NoPanel

NextItinerary ==
  \/ \E d \in TickSteps : Tick(d)
  \/ ItineraryNext

SpecItinerary == InitItinerary /\ [][NextItinerary]_vars

\* The hook has loaded the days of the active plan, which are the default
\* days or days edited earlier; the other plan's store holds edited days.
InitDays ==
  /\ sys = "days"
  /\ InitClock
  /\ InitStore({})
  /\ WeatherIdle
  /\ CacheIdle
  /\ apiKey = TRUE
  /\ task = NoTask
  /\ ntasks = 0
  /\ emptyAt = [q \in Places |-> -1]
  /\ memoryCache = [k \in {PlacesKey(q) : q \in Spots} |-> NoEntry]
  /\ lastSave = [k \in {PlacesKey(q) : q \in Spots} |-> NeverSaved]
  /\ rate = Null
  /\ loading = TRUE
  /\ probe = [a |-> <<>>, b |-> <<>>, ka |-> NoKeys, kb |-> NoKeys]
  /\ hook = NoHook
  /\ maps = NoMaps
  /\ \E plan \in Plans : \E days \in {DefaultDays(plan), EditedDays(plan)} :
       trip = [NoTrip EXCEPT
                 !.plan = plan, !.itinerary = days,
                 !.stores = [q \in Plans |-> IF q = plan THEN DaysOf(days)
                                              ELSE DaysOf(EditedDays(q))]]
  /\ panel = NoPanel

NextDays == DaysNext

SpecDays == InitDays /\ [][NextDays]_vars

InitPanel ==
  /\ sys = "panel"
  /\ InitClock
  /\ InitStore({})
  /\ WeatherIdle
  /\ CacheIdle
  /\ apiKey = TRUE
  /\ task = NoTask
  /\ ntasks = 0
  /\ emptyAt = [q \in Places |-> -1]
  /\ memoryCache = [k \in {PlacesKey(q) : q \in Spots} |-> NoEntry]
  /\ lastSave = [k \in {PlacesKey(q) : q \in Spots} |-> NeverSaved]
  /\ rate = Null
  /\ loading = TRUE
  /\ probe = [a |-> <<>>, b |-> <<>>, ka |-> NoKeys, kb |-> NoKeys]
  /\ hook = NoHook
  /\ maps = NoMaps
  /\ trip = NoTrip
  /\ \E c \in PanelCoords : panel = [NoPanel EXCEPT !.coords = c]

NextPanel == PanelNext

SpecPanel == InitPanel /\ [][NextPanel]_vars

InitMaps ==
  /\ sys = "maps"
  /\ InitClock
  /\ InitStore({})
  /\ WeatherIdle
  /\ CacheIdle
  /\ apiKey = TRUE
  /\ task = NoTask
  /\ ntasks = 0
  /\ emptyAt = [q \in Places |-> -1]
  /\ memoryCache = [k \in {PlacesKey(q) : q \in Spots} |-> NoEntry]
  /\ lastSave = [k \in {PlacesKey(q) : q \in Spots} |-> NeverSaved]
  /\ rate = Null
  /\ loading = TRUE
  /\ probe = [a |-> <<>>, b |-> <<>>, ka |-> NoKeys, kb |-> NoKeys]
  /\ hook = NoHook
  /\ \E l \in BOOLEAN : maps = [NoMaps EXCEPT !.library = l]
  /\ trip = NoTrip
  /\ panel = NoPanel

NextMaps == MapsNext

SpecMaps == InitMaps /\ [][NextMaps]_vars

NextKeys ==
  \/ \E d \in TickSteps : Tick(d)
  \/ KeysNext

SpecKeys == InitKeys /\ [][NextKeys]_vars

NextPhoto ==
  \/ \E d \in TickSteps : Tick(d)
  \/ PhotoNext

SpecPhoto == InitPhoto /\ [][NextPhoto]_vars

NextCache ==
  \/ \E d \in TickSteps : Tick(d)
  \/ CacheNext

SpecCache == InitCache /\ [][NextCache]_vars

NextWeather ==
  \/ \E d \in TickSteps : Tick(d)
  \/ WeatherNext

SpecWeather == InitWeather /\ [][NextWeather]_vars

Init ==
  \/ InitWeather
  \/ InitCache
  \/ InitPhoto
  \/ InitRoute
  \/ InitFsq
  \/ InitPlaces
  \/ InitCurrency
  \/ InitKeys
  \/ InitItinerary
  \/ InitMaps
  \/ InitDays
  \/ InitPanel

Next ==
  \/ \E d \in TickSteps : Tick(d)
  \/ sys = "weather" /\ WeatherNext
  \/ sys = "cache" /\ CacheNext
  \/ sys = "photo" /\ PhotoNext
  \/ sys = "route" /\ RouteNext
  \/ sys = "fsq" /\ FsqNext
  \/ sys = "places" /\ PlacesNext
  \/ sys = "currency" /\ CurrencyNext
  \/ sys = "keys" /\ KeysNext
  \/ sys = "itinerary" /\ ItineraryNext
  \/ sys = "maps" /\ MapsNext
  \/ sys = "days" /\ DaysNext
  \/ sys = "panel" /\ PanelNext

Spec == Init /\ [][Next]_vars

\* What get answers for a key that was never set.
NeverSetAnswer(key) ==
  CacheGet([k \in DOMAIN ls |-> NoItem], PHOTO_CACHE_PREFIX, PHOTO_CACHE_DURATION,
           key, now, FALSE).val

\* The last operation was a get of a key whose last set was written, and
\* the get could read the storage.
GetAfterSet ==
  /\ sys = "cache"
  /\ ret.op = "get"
  /\ ~ret.failed
  /\ lastSet[ret.key].done
  /\ lastSet[ret.key].ok

\* ---------------------------------------------------------------- claims
\* C1: callers of fetchWeatherData that find no fresh snapshot while a fetch
\* is outstanding share that one fetch: no second network request is issued
\* while one is outstanding, each such caller awaits the outstanding
\* operation, and callers of the same operation end with the same outcome.
C1_SharedFetch ==
  sys = "weather" =>
    /\ Cardinality(Outstanding(ops)) <= 1
    /\ \A c \in 1..Len(calls) : calls[c].joined # 0 => calls[c].op = calls[c].joined
    /\ \A c1, c2 \in 1..Len(calls) :
         (/\ calls[c1].joined # 0
          /\ calls[c1].joined = calls[c2].joined
          /\ calls[c1].pc = "done"
          /\ calls[c2].pc = "done") => calls[c1].result = calls[c2].result

\* Two callers shared one fetch and both received its snapshot.
C1_Witness ==
  \E c1, c2 \in 1..Len(calls) :
    /\ c1 # c2
    /\ calls[c1].joined # 0
    /\ calls[c1].joined = calls[c2].joined
    /\ calls[c1].pc = "done"
    /\ calls[c2].pc = "done"
    /\ calls[c1].result.kind = "data"
    /\ Len(ops) = 1

\* C2: inflightFetch never names a settled operation, on the success path
\* and on every failure path, so no caller is left awaiting a settled
\* operation: a call that misses the cache after the settle starts a fetch.
C2_MarkerCleared ==
  sys = "weather" =>
    /\ inflightFetch # 0 => ops[inflightFetch].stage # "settled"
    /\ \A c \in 1..Len(calls) :
         calls[c].pc = "await" => ops[calls[c].op].stage # "settled"

\* A fetch failed and settled, and a later call started a second fetch.
C2_Witness ==
  /\ Len(ops) >= 2
  /\ ops[1].stage = "settled"
  /\ ops[1].result = WeatherNull
  /\ inflightFetch = 2

\* C3: after set(k, v) at t0 and no later set of k, a get(k) at t returns v
\* when t0 <= t < t0 + duration and null when t >= t0 + duration.
C3_Freshness ==
  GetAfterSet =>
    LET w == lastSet[ret.key] IN
      /\ (w.t <= ret.at /\ ret.at < w.t + PHOTO_CACHE_DURATION) => ret.val = w.v
      /\ ret.at >= w.t + PHOTO_CACHE_DURATION => ret.val = Null

\* A get exactly at t0 + duration of a stored photo answered null.
C3_Witness ==
  /\ GetAfterSet
  /\ lastSet[ret.key].v # Null
  /\ ret.at = lastSet[ret.key].t + PHOTO_CACHE_DURATION
  /\ ret.val = Null

\* C4: no call of fetchRoute, searchFoursquareVenues, searchPlacePhoto or
\* searchNearbyRestaurants rejects to its caller or is left unable to
\* settle: each ends by resolving.
C4_AlwaysResolves ==
  task.fn \in {"route", "fsq", "photo", "places"} => task.pc \notin {"rejected", "stuck"}

\* The storage key a call's cache read looks at.
TaskKey(t) ==
  CASE t.fn = "route" -> RouteKey(t.arg)
    [] t.fn = "fsq" -> FsqKey(t.arg)
    [] t.fn = "photo" -> PHOTO_CACHE_PREFIX \o PhotoKey(t.arg)
    [] t.fn = "places" -> PLACES_CACHE_PREFIX \o PlacesKey(t.arg)
    [] t.fn = "currency" -> CURRENCY_CACHE_KEY

\* The call's cache read met unavailable storage or a corrupted record.
ReadMetFailure(t) == t.failed \/ t.before[TaskKey(t)].kind = "garbage"

\* C5: a cache read that meets unavailable storage or a corrupted record
\* raises nothing and counts as a miss, and its caller goes on to fetch:
\* for the generic cache get and its caller searchPlacePhoto, for the
\* directions cache read, and for the weather cache read.
C5_ReadFailureIsMiss ==
  /\ (sys = "cache" /\ ret.op = "get" /\
        (ret.failed \/ ls[PHOTO_CACHE_PREFIX \o ret.key].kind = "garbage"))
       => (~ret.threw /\ ret.val = Null)
  /\ (task.fn \in {"photo", "route"} /\ apiKey /\ ReadMetFailure(task))
       => (task.pc # "rejected" /\ task.requests = 1)
  /\ \A c \in 1..Len(calls) :
       calls[c].unread => (calls[c].pc # "rejected" /\ calls[c].op # 0)

\* C6: with a corrupted exchange-rate record stored, the initial load of
\* the currency widget raises nothing out of fetchRate and, once it has
\* ended, loading is false and a rate is set.
C6_CorruptRateIsMiss ==
  (task.fn = "currency" /\ ~task.failed /\ task.before[CURRENCY_CACHE_KEY].kind = "garbage")
    => /\ task.pc # "rejected"
       /\ Settled(task) => (loading = FALSE /\ rate # Null)

\* C7: a get(k) right after set(k, null) answers something other than what
\* get answers for a key that was never set.
C7_NullDistinguishable ==
  (/\ GetAfterSet
   /\ lastSet[ret.key].v = Null
   /\ lastSet[ret.key].t = ret.at) => ret.val # NeverSetAnswer(ret.key)

\* A search of a place for which "no photo found" was recorded, by a call
\* that could read the storage.
SearchAfterEmpty ==
  /\ sys = "photo"
  /\ apiKey
  /\ task.fn = "photo"
  /\ task.recAt >= 0
  /\ ~task.failed

\* C8: with "no photo found" recorded for a place at t0, a search of the
\* place before t0 + 24h resolves with null and issues no network request,
\* and the first search at or after t0 + 24h issues exactly one.
C8_EmptyCachedForADay ==
  SearchAfterEmpty =>
    /\ task.at < task.recAt + PHOTO_CACHE_DURATION =>
         (task.pc = "done" /\ task.result = Null /\ task.requests = 0)
    /\ task.at >= task.recAt + PHOTO_CACHE_DURATION => task.requests = 1

\* A search 23 hours after the record was answered from the cache.
C8_Witness ==
  /\ SearchAfterEmpty
  /\ task.at = task.recAt + 23
  /\ task.pc = "done"
  /\ task.requests = 0

\* A search 24 hours after the record went to the network.
C8_WitnessExpired ==
  /\ SearchAfterEmpty
  /\ task.at = task.recAt + PHOTO_CACHE_DURATION
  /\ task.requests = 1

\* A call whose remote fetch failed (network error or non-success status).
FetchFailed(t) == t.fn \in {"route", "fsq", "photo", "places"} /\ t.fetch = "failed"

\* The record r, read at time t, is a well-formed record past its 24 hours.
ExpiredAt(r, t) == r.kind = "json" /\ t - r.timestamp >= DIRECTIONS_CACHE_DURATION

\* C9 (as stated): after a call whose remote fetch failed, the stored cache
\* state equals the stored state before the call.
C9_StoreUnchanged ==
  /\ FetchFailed(task) => ls = task.before
  /\ \A o \in 1..Len(ops) :
       (ops[o].stage = "settled" /\ ops[o].fetch = "failed") => ops[o].kept

\* C9 (amended): a call whose remote fetch failed writes no cache entry:
\* the store after it differs from the store before it at most in that the
\* expired record of the call's own key has been removed by the call's
\* cache read, so no later call is served the failure from the cache.
C9_FailureNotCached ==
  /\ FetchFailed(task) =>
       \A k \in DOMAIN ls :
         \/ ls[k] = task.before[k]
         \/ /\ k = TaskKey(task)
            /\ ls[k] = NoItem
            /\ ExpiredAt(task.before[k], task.at)
  /\ \A o \in 1..Len(ops) :
       (ops[o].stage = "settled" /\ ops[o].fetch = "failed") => ops[o].kept

\* A fetchRoute call found an expired route, removed it, and its fetch failed.
C9_Witness ==
  /\ task.fn = "route"
  /\ task.fetch = "failed"
  /\ ExpiredAt(task.before[TaskKey(task)], task.at)
  /\ ls[TaskKey(task)] = NoItem

\* A failed weather fetch settled with the stored snapshot as it was.
C9_WitnessWeather ==
  \E o \in 1..Len(ops) :
    /\ ops[o].stage = "settled"
    /\ ops[o].fetch = "failed"
    /\ ops[o].kept
    /\ ls[WEATHER_CACHE_KEY].kind = "json"

\* The last operation was a get of a key whose last set failed to write.
GetAfterFailedSet ==
  /\ sys = "cache"
  /\ ret.op = "get"
  /\ lastSet[ret.key].done
  /\ ~lastSet[ret.key].ok

\* A restaurant search whose key was last saved with a failed storage
\* write, the page not reloaded since.
SearchAfterFailedSave == task.fn = "places" /\ task.recAt >= 0

C10_WitnessPlaces ==
  /\ SearchAfterFailedSave
  /\ task.pc = "done"
  /\ task.requests = 0
  /\ task.cached = "rest1"
  /\ ls[TaskKey(task)].kind # "json"

\* A get of a key that has been set at least twice.
GetAfterTwoSets ==
  /\ sys = "cache"
  /\ ret.op = "get"
  /\ lastSet[ret.key].done
  /\ lastSet[ret.key].prior # NoPrior

\* A restaurant search answered from the cache, for a key saved twice.
HitAfterTwoSaves ==
  /\ task.fn = "places"
  /\ task.cached \notin {"", Null}
  /\ lastSave[PlacesKey(task.arg)].done
  /\ lastSave[PlacesKey(task.arg)].prior # NoPrior

C11_WitnessPlaces ==
  /\ HitAfterTwoSaves
  /\ lastSave[PlacesKey(task.arg)].v # task.cached
  /\ lastSave[PlacesKey(task.arg)].prior = task.cached

\* C12: a cache read that finds a record that is not JSON counts as a miss
\* and removes the record, so that the record is gone after the read: for
\* createCache.get and for getFromCache of directions and foursquare.
C12_CorruptRecordRemoved ==
  /\ (sys = "cache" /\ ret.op = "get" /\ ~ret.failed)
       => ls[PHOTO_CACHE_PREFIX \o ret.key].kind # "garbage"
  /\ (task.fn \in {"route", "fsq"} /\ apiKey /\ ~task.failed
        /\ task.before[TaskKey(task)].kind = "garbage")
       => ls[TaskKey(task)].kind # "garbage"

\* The record r is a well-formed record that is fresh at time t.
FreshAt(r, t) == r.kind = "json" /\ t - r.timestamp < DIRECTIONS_CACHE_DURATION

\* The memoryCache entry e is fresh at time t.
MemFreshAt(e, t) == e.kind = "entry" /\ t - e.timestamp < PLACES_CACHE_DURATION

\* The call was answered with the value d and issued no network request.
ServedFromCache(t, d) == t.pc = "done" /\ t.result = d /\ t.requests = 0

\* C13 (as stated): in every state in which a fresh entry is stored under
\* the key of a call of fetchRoute, searchFoursquareVenues or
\* searchNearbyRestaurants, the call returns the entry's value and makes no
\* network call.
C13_FreshEntryAlwaysServed ==
  (task.fn \in {"route", "fsq", "places"} /\ task.arg \notin BadSpots
     /\ FreshAt(task.before[TaskKey(task)], task.at))
    => ServedFromCache(task, task.before[TaskKey(task)].data)

\* C13 (amended): with the API token or key configured, a call that finds a
\* fresh entry under its key in readable storage returns the entry's value
\* and makes no network call; searchNearbyRestaurants answers from a fresh
\* in-memory entry first, and from the stored entry otherwise.
C13_FreshEntryServed ==
  /\ (task.fn \in {"route", "fsq"} /\ apiKey /\ ~task.failed
        /\ FreshAt(task.before[TaskKey(task)], task.at))
       => ServedFromCache(task, task.before[TaskKey(task)].data)
  /\ (task.fn = "places" /\ task.arg \notin BadSpots /\ MemFreshAt(task.mem, task.at))
       => ServedFromCache(task, task.mem.data)
  /\ (task.fn = "places" /\ task.arg \notin BadSpots /\ ~MemFreshAt(task.mem, task.at)
        /\ ~task.failed
        /\ FreshAt(task.before[TaskKey(task)], task.at))
       => ServedFromCache(task, task.before[TaskKey(task)].data)

\* A fetchRoute call was answered with the route an earlier call stored.
C13_Witness ==
  /\ task.fn = "route"
  /\ FreshAt(task.before[TaskKey(task)], task.at)
  /\ task.before[TaskKey(task)].data = "route1"
  /\ ServedFromCache(task, "route1")

\* A restaurant search was answered from localStorage after a reload.
C13_WitnessPlaces ==
  /\ task.fn = "places"
  /\ task.arg \notin BadSpots
  /\ task.mem.kind = "none"
  /\ task.before[TaskKey(task)].data \in Restaurants
  /\ ServedFromCache(task, task.before[TaskKey(task)].data)

\* The remote call of the task succeeded and its response was processed.
RemoteSucceeded(t) ==
  t.fn \in {"route", "fsq", "places"} /\ t.pc = "done" /\ t.body \in {"value", "empty"}

\* C14: a call whose remote call succeeded, zero results included, has
\* written the value it returns into the cache under its key (unless the
\* storage write failed), so that the same call repeated at once is
\* answered from the cache.
C14_SuccessCached ==
  RemoteSucceeded(task) =>
    /\ task.fn = "places" =>
         (lastSave[PlacesKey(task.arg)].done
          /\ lastSave[PlacesKey(task.arg)].v = task.result
          /\ lastSave[PlacesKey(task.arg)].t >= task.at)
    /\ (task.fn \in {"route", "fsq"} /\ task.saved # "failed") =>
         (ls[TaskKey(task)].kind = "json" /\ ls[TaskKey(task)].data = task.result)

\* A call of searchNearbyRestaurants with coordinates the check refuses.
RefusedSearch ==
  /\ task.fn = "places"
  /\ ~ValidCoordinates(PlacesArgs(task.arg).lat, PlacesArgs(task.arg).lng)

\* C15: searchNearbyRestaurants called with a non-numeric, NaN, infinite or
\* out-of-range coordinate resolves at once with the unavailable result,
\* issues no request, and leaves localStorage and memoryCache as they were
\* (memoryCache changes only by a later reload).
C15_InvalidCoordinatesRefused ==
  RefusedSearch =>
    /\ task.pc = "done"
    /\ task.result = Unavailable
    /\ task.requests = 0
    /\ task.cached = ""
    /\ ls = task.before
    /\ memoryCache = task.mem \/ memoryCache = [k \in DOMAIN memoryCache |-> NoEntry]

\* A search with a NaN latitude was refused while both cache levels held a
\* fresh entry of an earlier search.
C15_Witness ==
  /\ RefusedSearch
  /\ task.arg = "nan"
  /\ task.pc = "done"
  /\ \E k \in DOMAIN memoryCache :
       /\ MemFreshAt(memoryCache[k], task.at)
       /\ FreshAt(ls[PLACES_CACHE_PREFIX \o k], task.at)

\* A search with a latitude of 90.00001 was refused.
C15_WitnessRange ==
  /\ RefusedSearch
  /\ task.arg = "north"
  /\ task.pc = "done"

\* The coordinates (in 1/100000 of a degree) are within range.
InRange(lat, lng) ==
  /\ lat >= -9000000 /\ lat <= 9000000
  /\ lng >= -18000000 /\ lng <= 18000000

\* A call of fetchRoute or searchFoursquareVenues with a coordinate out of
\* range.
OutOfRangeCall ==
  \/ /\ task.fn = "route"
     /\ LET a == RouteArgs(task.arg) IN
          ~InRange(a.startLat, a.startLng) \/ ~InRange(a.endLat, a.endLng)
  \/ /\ task.fn = "fsq"
     /\ ~InRange(SpotArgs(task.arg).lat, SpotArgs(task.arg).lng)

\* C16: fetchRoute and searchFoursquareVenues called with out-of-range
\* coordinates return their unavailable result at once: no request is
\* issued and the cache is not looked at.
C16_OutOfRangeRefused ==
  OutOfRangeCall =>
    /\ task.pc = "done"
    /\ task.result = IF task.fn = "route" THEN Null ELSE Unavailable
    /\ task.requests = 0
    /\ ls = task.before

\* The keys of the two tuples have been made.
KeysMade == sys = "keys" /\ probe.ka # NoKeys

\* C17: two parameter tuples whose coordinates round to the same values at
\* a cache's precision, with equal radius (and profile), get the same key
\* from that cache: 4 decimals for places and directions, 3 for foursquare.
C17_SameRoundingSameKey ==
  KeysMade =>
    LET a == probe.a
        b == probe.b
    IN /\ (PlacesRounded(a.lat) = PlacesRounded(b.lat) /\ PlacesRounded(a.lng) = PlacesRounded(b.lng)
           /\ a.radius = b.radius) => probe.ka.places = probe.kb.places
       /\ (Round4(a.lat) = Round4(b.lat) /\ Round4(a.lng) = Round4(b.lng))
            => probe.ka.directions = probe.kb.directions
       /\ (Round3(a.lat) = Round3(b.lat) /\ Round3(a.lng) = Round3(b.lng)
           /\ a.radius = b.radius) => probe.ka.fsq = probe.kb.fsq

\* p is a prefix of s.
IsPrefix(p, s) == Len(p) <= Len(s) /\ SubSeq(s, 1, Len(p)) = p

\* No two instances share a storage key, and no instance's namespace is the
\* head of another's.
NamespacesDisjoint ==
  \A i, j \in Instances :
    i # j => /\ InstanceKeys(i) \cap InstanceKeys(j) = {}
             /\ ~IsPrefix(Namespace(i), Namespace(j))

\* Per subsystem, the storage keys outside its instance's namespace.
ForeignKeys ==
  [y \in {"weather", "cache", "photo", "route", "fsq", "places", "currency"} |->
     {k \in AllKeys : ~IsPrefix(Namespace(InstanceOf(y)), k)}]

\* C18: the storage keys of the cache instances are pairwise disjoint, for
\* the keys used here and, no namespace being a prefix of another, for all
\* inputs; and the operations of one instance leave every record of the
\* other instances as it was.
C18_InstancesDisjoint ==
  /\ NamespacesDisjoint
  /\ sys \in DOMAIN ForeignKeys =>
       /\ ForeignKeys[sys] # {}
       /\ \A k \in ForeignKeys[sys] : ls[k] = Foreign

\* fetchRoute has removed an expired route and stored a new one, beside the
\* records of the other instances.
C18_Witness ==
  /\ task.fn = "route"
  /\ task.saved = "ok"
  /\ ExpiredAt(task.before[TaskKey(task)], task.at)
  /\ ls[TaskKey(task)].data = "route1"
  /\ \E k \in DOMAIN ls : ls[k] = Foreign

\* Every load the hook has started has settled.
LoadsSettled ==
  /\ sys = "itinerary"
  /\ hook.mounted
  /\ \A i \in 1..Len(hook.loads) : hook.loads[i].pc = "done"

\* C19: once every getAllItineraries load the hook started has settled, the
\* itinerary in state is the data of the active plan, in whatever order the
\* loads complete after switchPlan.
C19_ItineraryOfActivePlan ==
  LoadsSettled => hook.itinerary.plan = hook.activePlan

\* What getFromPhotoCache answered the photo search in progress or finished.
PhotoCacheAnswer ==
  GetFromPhotoCache(task.before, task.arg, task.at, task.failed).val

\* C20: getFromPhotoCache answers null only when a fresh entry whose data is
\* null is stored; with no record, an expired record or an unparseable
\* record it answers undefined, and searchPlacePhoto goes on to fetch.
C20_NullOnlyWhenCachedEmpty ==
  (task.fn = "photo" /\ apiKey /\ ~task.failed) =>
    LET rec == task.before[TaskKey(task)] IN
    /\ PhotoCacheAnswer = Null => (FreshAt(rec, task.at) /\ rec.data = Null)
    /\ (rec.kind \in {"none", "garbage"} \/ ExpiredAt(rec, task.at))
         => (PhotoCacheAnswer = Undefined /\ task.requests = 1)

\* C21: waitForGoogleMaps settles no later than its ceiling of 10 seconds
\* whether or not the library loads or the load event fires, no checkLoaded
\* timer is left once the ceiling has passed, and searchNearbyRestaurants
\* returns the unavailable result when the library is still missing at
\* that point.
C21_WaitBounded ==
  sys = "maps" =>
    /\ maps.t > WAIT_CEILING => (maps.resolved /\ ~maps.late)
    /\ maps.t > WAIT_CEILING + POLL_INTERVAL => (maps.due = 0 /\ maps.next = 0)
    /\ (maps.expired /\ ~maps.library) => maps.result = Unavailable
    /\ maps.result = "search" => maps.library

\* The ceiling has passed with the library never loaded and a checkLoaded
\* chain that ran up to it; the search has returned the unavailable result.
C21_Witness ==
  /\ sys = "maps"
  /\ maps.t > WAIT_CEILING + POLL_INTERVAL
  /\ ~maps.library
  /\ maps.expired
  /\ maps.events > 0
  /\ maps.result = Unavailable

\* The places search was answered from the cache.
PlacesServed ==
  /\ task.fn = "places"
  /\ task.arg \notin BadSpots
  /\ task.cached \notin {"", Null}

\* C22: the places cache never answers with a value 24 hours or more after
\* the saveToCache that wrote it: a value served comes from an entry that
\* is under 24 hours old, every entry in memory is the last save of its key
\* or a copy of the stored record with the record's own time, and every
\* stored record carries the time of the save that wrote it.
C22_LifetimeNotExtended ==
  sys = "places" =>
    /\ PlacesServed =>
         \/ MemFreshAt(task.mem, task.at) /\ task.mem.data = task.cached
         \/ /\ FreshAt(task.before[TaskKey(task)], task.at)
            /\ task.before[TaskKey(task)].data = task.cached
    /\ \A k \in DOMAIN memoryCache :
         LET e == memoryCache[k]
             r == ls[PLACES_CACHE_PREFIX \o k]
             w == lastSave[k]
         IN /\ e.kind = "entry" =>
                 \/ w.done /\ ~w.reloaded /\ e = MemEntry(w.v, w.t)
                 \/ r.kind = "json" /\ e = MemEntry(r.data, r.timestamp)
            /\ r.kind = "json" => (r \in InitialRaw \/ r = Stringify(w.sv, w.st))

\* After a reload a search was answered from the stored record of an
\* earlier save, later than the save but within its 24 hours, and the
\* memory level now holds the record with the time of that save.
C22_Witness ==
  /\ PlacesServed
  /\ lastSave[PlacesKey(task.arg)].reloaded
  /\ lastSave[PlacesKey(task.arg)].st >= 0
  /\ task.at > lastSave[PlacesKey(task.arg)].st
  /\ task.mem.kind = "none"
  /\ memoryCache[PlacesKey(task.arg)] =
       MemEntry(lastSave[PlacesKey(task.arg)].sv, lastSave[PlacesKey(task.arg)].st)

\* C23: whenever saveDayItinerary fails to persist a day, because the
\* database cannot be opened or because the put request fails, a 'db-error'
\* event is dispatched on window.
C23_SaveFailureDispatched ==
  (sys = "days" /\ trip.save.outcome \in {"openFailed", "putFailed"})
    => trip.save.dispatched

\* C24: getAllItineraries(plan) never rejects: it resolves, with the stored
\* days or with the plan's default data, also when opening, reading or
\* seeding fails.
C24_LoadNeverRejects ==
  sys = "itinerary" =>
    \A i \in 1..Len(hook.loads) :
      hook.loads[i].outcome # "rejected" /\ hook.loads[i].pc # "stuck"

\* The plan that is not p.
OtherPlan(p) == IF p = "plan1" THEN "plan2" ELSE "plan1"

\* C25 (as stated): after resetItineraries(plan) resolves, the plan's store
\* holds exactly the plan's default days and the other plan's store is as
\* it was.
C25_ResetLeavesDefaults ==
  (sys = "days" /\ trip.done.fn = "reset" /\ trip.done.result \in {"resolved", "fallback"})
    => /\ trip.stores[trip.done.plan] = DaysOf(DefaultDays(trip.done.plan))
       /\ trip.stores[OtherPlan(trip.done.plan)] =
            trip.done.before[OtherPlan(trip.done.plan)]

\* C25 (amended): after resetItineraries(plan) resolves having opened the
\* database, the plan's store holds exactly the plan's default days and the
\* other plan's store is as it was; when the database cannot be opened it
\* resolves with the default days and both stores are as they were.
C25_ResetLeavesDefaultsIfOpened ==
  (sys = "days" /\ trip.done.fn = "reset") =>
    /\ trip.done.result = "resolved" =>
         /\ trip.stores[trip.done.plan] = DaysOf(DefaultDays(trip.done.plan))
         /\ trip.stores[OtherPlan(trip.done.plan)] =
              trip.done.before[OtherPlan(trip.done.plan)]
    /\ trip.done.result = "fallback" =>
         /\ trip.stores = trip.done.before
         /\ trip.itinerary = DefaultDays(trip.done.plan)

\* A reset has resolved on a store that held an edited and an added day.
C25_Witness ==
  /\ sys = "days"
  /\ trip.done.fn = "reset"
  /\ trip.done.result = "resolved"
  /\ \E x \in trip.done.before[trip.done.plan] : x.tag = "added"
  /\ \E x \in trip.done.before[trip.done.plan] : x.tag = "edited"

\* C26: after importItinerary(data) has completed and the state shows the
\* imported days, the active plan's store contains exactly the imported
\* days.
C26_StoreHoldsImport ==
  (sys = "days" /\ trip.done.fn = "import" /\ trip.done.result = "shown")
    => /\ trip.itinerary = trip.done.data
       /\ trip.stores[trip.done.plan] = DaysOf(trip.done.data)

\* No two of the days share a date key.
DistinctDates(days) ==
  \A i, j \in 1..Len(days) : i # j => days[i].date # days[j].date

\* C27: after any sequence of addDay calls, from a loaded or imported
\* itinerary whose date keys are distinct, no two days of the itinerary
\* state share a date key.
C27_DateKeysDistinct ==
  sys = "days" => DistinctDates(trip.itinerary)

\* C28: a refreshRate whose request fails (network error or a status that
\* is not a success) leaves the rate shown and the stored exchange-rate
\* record as they were before the refresh, and loading is false again.
C28_FailedRefreshKeepsAll ==
  (task.fn = "refresh" /\ task.pc = "done" /\ task.fetch = "failed")
    => /\ rate = task.mem
       /\ ls = task.before
       /\ loading = FALSE

\* C29: while the panel is expanded, once loading has finished the venues
\* shown are those of the current coordinates, never those of earlier
\* coordinates.
C29_VenuesOfCurrentCoords ==
  (sys = "panel" /\ panel.expanded /\ ~panel.loading /\ panel.venues.n > 0)
    => panel.venues.of = panel.coords
====
